---------------------------- MODULE Spec2Model ----------------------------
(***************************************************************************)
(* Turn/world simulation layer of hex_war: hex geometry, units and tiles,  *)
(* movement, combat, tile ownership, turn control with reinforcement,      *)
(* victory detection, player input and the AI opponent.                    *)
(***************************************************************************)
EXTENDS Integers, Sequences, FiniteSets, TLC

(***************************************************************************)
(* Single-precision arithmetic.  The combat and AI code computes strengths *)
(* in f32; a value is modelled as <<sign, mantissa, exponent>> with        *)
(* 2^23 <= mantissa < 2^24 and value = sign * mantissa * 2^(exponent-23),  *)
(* zero being <<0, 0, 0>>.  Every operation rounds to nearest, ties to     *)
(* even, as the hardware does.                                             *)
(***************************************************************************)
F32Zero == <<0, 0, 0>>

Abs(n) == IF n < 0 THEN -n ELSE n

Sgn(n) == IF n < 0 THEN -1 ELSE IF n = 0 THEN 0 ELSE 1

RECURSIVE BitLen(_)
BitLen(n) == IF n = 0 THEN 0 ELSE 1 + BitLen(n \div 2)

\* value = sign * mag * 2^scale with 0 <= mag < 2^31: the nearest f32
F32Round(sign, mag, scale) ==
    IF mag = 0 \/ sign = 0 THEN F32Zero
    ELSE LET len == BitLen(mag)
         IN  IF len <= 24
             THEN <<sign, mag * 2^(24 - len), scale + len - 1>>
             ELSE LET sh   == len - 24
                      q    == mag \div 2^sh
                      r    == mag % 2^sh
                      half == 2^(sh - 1)
                      up   == r > half \/ (r = half /\ q % 2 = 1)
                      m    == IF up THEN q + 1 ELSE q
                  IN  IF m = 2^24 THEN <<sign, 2^23, scale + len>>
                      ELSE <<sign, m, scale + len - 1>>

\* `n as f32` for an i32 of magnitude below 2^24 (exact)
F32FromInt(n) == F32Round(Sgn(n), Abs(n), 0)

\* the quotient bits of r / d after the binary point, k of them
RECURSIVE DivBits(_, _, _, _)
DivBits(r, d, k, q) ==
    IF k = 0 THEN <<q, r>>
    ELSE LET r2 == 2 * r
         IN  IF r2 >= d THEN DivBits(r2 - d, d, k - 1, 2 * q + 1)
             ELSE DivBits(r2, d, k - 1, 2 * q)

F32Div(a, b) ==
    IF a[1] = 0 THEN F32Zero
    ELSE LET ge  == a[2] >= b[2]
             k   == IF ge THEN 24 ELSE 25
             qr  == DivBits(a[2] % b[2], b[2], k, a[2] \div b[2])
             q   == qr[1]
             m0  == q \div 2
             up  == q % 2 = 1 /\ (qr[2] # 0 \/ m0 % 2 = 1)
             m   == IF up THEN m0 + 1 ELSE m0
             e   == a[3] - b[3] + 24 - k
         IN  IF m = 2^24 THEN <<a[1] * b[1], 2^23, e + 1>>
             ELSE <<a[1] * b[1], m, e>>

F32Mul(a, b) ==
    IF a[1] = 0 \/ b[1] = 0 THEN F32Zero
    ELSE LET a1   == a[2] \div 4096
             a0   == a[2] % 4096
             b1   == b[2] \div 4096
             b0   == b[2] % 4096
             mid  == a1 * b0 + a0 * b1
             lowf == a0 * b0 + (mid % 4096) * 4096
             L    == lowf % 2^24
             H    == a1 * b1 + mid \div 4096 + lowf \div 2^24
             \* product = H * 2^24 + L, in [2^46, 2^48)
             big  == H >= 2^23
             m0   == IF big THEN H ELSE 2 * H + L \div 2^23
             r    == IF big THEN L ELSE L % 2^23
             half == IF big THEN 2^23 ELSE 2^22
             up   == r > half \/ (r = half /\ m0 % 2 = 1)
             m    == IF up THEN m0 + 1 ELSE m0
             e    == a[3] + b[3] + (IF big THEN 1 ELSE 0)
         IN  IF m = 2^24 THEN <<a[1] * b[1], 2^23, e + 1>>
             ELSE <<a[1] * b[1], m, e>>

\* mantissa m scaled by 8 and shifted right by d bits, lost bits kept sticky
ShiftSticky(m, d) ==
    IF d >= 27 THEN (IF m = 0 THEN 0 ELSE 1)
    ELSE LET x == m * 8
         IN  (x \div 2^d) + (IF x % 2^d # 0 /\ (x \div 2^d) % 2 = 0 THEN 1 ELSE 0)

F32Add(a, b) ==
    IF a[1] = 0 THEN b
    ELSE IF b[1] = 0 THEN a
    ELSE LET hi == IF a[3] >= b[3] THEN a ELSE b
             lo == IF a[3] >= b[3] THEN b ELSE a
             d  == hi[3] - lo[3]
             s  == hi[1] * hi[2] * 8 + lo[1] * ShiftSticky(lo[2], d)
         IN  F32Round(Sgn(s), Abs(s), hi[3] - 26)

F32Sub(a, b) == F32Add(a, <<-b[1], b[2], b[3]>>)

F32Gt(a, b) ==
    IF a[1] # b[1] THEN a[1] > b[1]
    ELSE IF a[1] = 0 THEN FALSE
    ELSE IF a[1] = 1 THEN a[3] > b[3] \/ (a[3] = b[3] /\ a[2] > b[2])
    ELSE a[3] < b[3] \/ (a[3] = b[3] /\ a[2] < b[2])

\* `x.floor() as i32` for |x| < 2^24
F32Floor(a) ==
    IF a[1] = 0 THEN 0
    ELSE LET sh  == 23 - a[3]
             int == IF sh <= 0 THEN a[2] * 2^(-sh)
                    ELSE IF sh >= 24 THEN 0 ELSE a[2] \div 2^sh
             fr  == IF sh <= 0 THEN FALSE
                    ELSE IF sh >= 24 THEN TRUE ELSE a[2] % 2^sh # 0
         IN  IF a[1] = 1 THEN int ELSE IF fr THEN -int - 1 ELSE -int

\* a decimal literal num/den written in the source, as the compiler rounds it
F32Lit(num, den) == F32Div(F32FromInt(num), F32FromInt(den))

(***************************************************************************)
(* Unsigned 32-bit arithmetic for rng_seed, kept as <<high, low>> 16-bit   *)
(* halves so that no intermediate value exceeds 31 bits.                   *)
(***************************************************************************)
\* the 32-bit product of two 16-bit numbers, as <<high, low>>
Mul16(x, y) ==
    LET x1   == x \div 256
        x0   == x % 256
        y1   == y \div 256
        y0   == y % 256
        mid  == x1 * y0 + x0 * y1
        lowf == x0 * y0 + (mid % 256) * 256
    IN  <<(x1 * y1 + mid \div 256 + lowf \div 65536) % 65536, lowf % 65536>>

\* u32::wrapping_mul
wrapping_mul(a, b) ==
    LET ll == Mul16(a[2], b[2])
        hl == Mul16(a[1], b[2])
        lh == Mul16(a[2], b[1])
    IN  <<(ll[1] + hl[2] + lh[2]) % 65536, ll[2]>>

\* u32::wrapping_add
wrapping_add(a, b) ==
    LET lo == a[2] + b[2]
    IN  <<(a[1] + b[1] + lo \div 65536) % 65536, lo % 65536>>

\* `seed as i32 % n` for a small positive n: the cast reinterprets the bits,
\* and the remainder takes the sign of the dividend
I32Rem(a, n) ==
    LET um == ((a[1] % n) * (65536 % n) + (a[2] % n)) % n
        tm == ((65536 % n) * (65536 % n)) % n
    IN  IF a[1] < 32768 THEN um
        ELSE -((tm - um + n) % n)

\* i32 division, truncating toward zero
TruncDiv(a, b) == Sgn(a) * Sgn(b) * (Abs(a) \div Abs(b))

Min(a, b) == IF a < b THEN a ELSE b

Max(a, b) == IF a > b THEN a ELSE b

Clamp(x, lo, hi) == Max(lo, Min(x, hi))

(***************************************************************************)
(* Program constants (constants.rs)                                        *)
(***************************************************************************)
ACTIONS_PER_TURN == 5

CITY_REINFORCEMENT == 10

MAX_SOLDIERS == 99

SPEECH_MORALE_BOOST == 5

MAX_MORALE == 50

UNIT_DEFAULT_MOVEMENT_RANGE == 2

INITIAL_SOLDIERS == 10

(***************************************************************************)
(* Factions, difficulty, tile types (ecs.rs)                               *)
(***************************************************************************)
Faction == {"Redosia", "Violetnam", "Bluegaria", "Greenland"}

None == "None"

\* the absent entity handle
NoEntity == 0

Difficulty == {"Easy", "Normal", "Hard"}

TileType == {"Sea", "Land", "Forest", "City", "Port", "Capital"}

next_faction(faction) ==
    CASE faction = "Redosia"   -> "Violetnam"
      [] faction = "Violetnam" -> "Bluegaria"
      [] faction = "Bluegaria" -> "Greenland"
      [] faction = "Greenland" -> "Redosia"

faction_index(faction) ==
    CASE faction = "Redosia"   -> 0
      [] faction = "Violetnam" -> 1
      [] faction = "Bluegaria" -> 2
      [] faction = "Greenland" -> 3

faction_from_index(index) ==
    CASE index = 0 -> "Redosia"
      [] index = 1 -> "Violetnam"
      [] index = 2 -> "Bluegaria"
      [] OTHER     -> "Greenland"

tile_defense_bonus(tile_type) ==
    CASE tile_type = "Capital" -> F32Lit(12, 10)
      [] tile_type = "City"    -> F32Lit(11, 10)
      [] tile_type = "Forest"  -> F32Lit(115, 100)
      [] tile_type = "Port"    -> F32Lit(105, 100)
      [] OTHER                 -> F32FromInt(1)

(***************************************************************************)
(* Hex geometry (hex.rs): offset coordinates <<column, row>>, odd columns  *)
(* shifted.                                                                *)
(***************************************************************************)
\* variant: the parity of the column taken as a remainder, -1 for a negative
\* odd column
hex_to_cube_rem(coord) ==
    LET x == coord[1]
        z == coord[2] - (coord[1] - Sgn(coord[1]) * (Abs(coord[1]) % 2)) \div 2
    IN  <<x, -x - z, z>>

hex_to_cube(coord) ==
    LET x == coord[1]
        z == coord[2] - (coord[1] - (coord[1] % 2)) \div 2
    IN  <<x, -x - z, z>>

hex_from_cube(x, y, z) == <<x, z + (x - (x % 2)) \div 2>>

\* variant: the distance counted on the offset coordinates
hex_distance_offset(from, to) ==
    IF Abs(from[1] - to[1]) > Abs(from[2] - to[2])
    THEN Abs(from[1] - to[1]) ELSE Abs(from[2] - to[2])

hex_distance(from, to) ==
    LET a == hex_to_cube(from)
        b == hex_to_cube(to)
    IN  (Abs(a[1] - b[1]) + Abs(a[2] - b[2]) + Abs(a[3] - b[3])) \div 2

\* variant: the parity of the column tested without abs, so that a negative
\* odd column takes the table of the even columns
hex_neighbors_signed(coord) ==
    LET column == coord[1]
        row    == coord[2]
    IN  IF column > 0 /\ column % 2 # 0
        THEN << <<column, row - 1>>, <<column + 1, row>>, <<column + 1, row + 1>>,
                <<column, row + 1>>, <<column - 1, row + 1>>, <<column - 1, row>> >>
        ELSE << <<column, row - 1>>, <<column + 1, row - 1>>, <<column + 1, row>>,
                <<column, row + 1>>, <<column - 1, row>>, <<column - 1, row - 1>> >>

hex_neighbors(coord) ==
    LET column == coord[1]
        row    == coord[2]
    IN  IF Abs(column) % 2 # 0
        THEN << <<column, row - 1>>, <<column + 1, row>>, <<column + 1, row + 1>>,
                <<column, row + 1>>, <<column - 1, row + 1>>, <<column - 1, row>> >>
        ELSE << <<column, row - 1>>, <<column + 1, row - 1>>, <<column + 1, row>>,
                <<column, row + 1>>, <<column - 1, row>>, <<column - 1, row - 1>> >>

NeighborSet(coord) == {hex_neighbors(coord)[i] : i \in 1..6}

(***************************************************************************)
(* The board.  A match is played on the tiles produced once by map         *)
(* generation; the tile types never change afterwards.  The model plays on *)
(* a reduced board with the four capitals in the same cyclic arrangement   *)
(* as CAPITAL_POSITIONS, a City between the capitals on either side, two   *)
(* Ports on one Sea tile, Land and Forest.                                 *)
(***************************************************************************)
Board ==
    [c \in {<<0, 0>>, <<1, 0>>, <<2, 0>>, <<3, 0>>,
            <<0, 1>>, <<1, 1>>, <<2, 1>>, <<3, 1>>,
            <<0, 2>>, <<1, 2>>, <<2, 2>>, <<3, 2>>} |->
        CASE c \in {<<0, 0>>, <<3, 0>>, <<3, 2>>, <<0, 2>>} -> "Capital"
          [] c \in {<<0, 1>>, <<3, 1>>}                     -> "City"
          [] c \in {<<1, 0>>, <<1, 2>>}                     -> "Port"
          [] c = <<1, 1>>                                   -> "Sea"
          [] c = <<2, 1>>                                   -> "Forest"
          [] OTHER                                          -> "Land"]

Coords == DOMAIN Board

CAPITAL_POSITIONS ==
    [f \in Faction |->
        CASE f = "Redosia"   -> <<0, 0>>
          [] f = "Violetnam" -> <<3, 0>>
          [] f = "Bluegaria" -> <<3, 2>>
          [] f = "Greenland" -> <<0, 2>>]

get_capital_coord(faction) == CAPITAL_POSITIONS[faction]

\* the tile type at a coordinate, None where the map has no tile
get_tile_type_at(coord) == IF coord \in Coords THEN Board[coord] ELSE None

get_defense_bonus_at(coord) ==
    IF coord \in Coords THEN tile_defense_bonus(Board[coord]) ELSE F32FromInt(1)

passable_tiles == {c \in Coords : Board[c] # "Sea"}

sea_tiles == {c \in Coords : Board[c] = "Sea"}

port_tiles == {c \in Coords : Board[c] = "Port"}

(***************************************************************************)
(* Pathfinding (valid_moves.rs)                                            *)
(***************************************************************************)
\* breadth-first search in layers: the tiles of `allowed` reached from the
\* frontier in at most `steps` further steps, added to `seen`
RECURSIVE BfsWithin(_, _, _, _)
BfsWithin(frontier, seen, allowed, steps) ==
    IF steps <= 0 \/ frontier = {} THEN seen
    ELSE LET next == {n \in UNION {NeighborSet(c) : c \in frontier} :
                          n \in allowed /\ n \notin seen}
         IN  BfsWithin(next, seen \cup next, allowed, steps - 1)

\* the breadth-first distance of `target`, -1 when the search never reaches it
RECURSIVE BfsDistance(_, _, _, _, _)
BfsDistance(frontier, seen, allowed, target, d) ==
    IF target \in frontier THEN d
    ELSE IF frontier = {} THEN -1
    ELSE LET next == {n \in UNION {NeighborSet(c) : c \in frontier} :
                          n \in allowed /\ n \notin seen}
         IN  BfsDistance(next, seen \cup next, allowed, target, d + 1)

\* the walk back from `current` to `from` over the recorded predecessors, all
\* of which lie one step nearer to `from`; `distances` holds the distance from
\* `from` of every passable tile, -1 for a tile the search never reached.
\* Among several predecessors the code takes the one of greatest
\* direction_alignment, which depends on the hex_width and hex_depth of the
\* loaded tile mesh; every choice is kept.
RECURSIVE WalkBack(_, _, _)
WalkBack(distances, from, current) ==
    IF current = from THEN {<<from>>}
    ELSE LET preds == {p \in NeighborSet(current) \cap DOMAIN distances :
                           distances[p] = distances[current] - 1}
         IN  UNION {{Append(path, current) : path \in WalkBack(distances, from, p)} :
                    p \in preds}

\* one expansion of the sea search: the unvisited Sea neighbours of `current`
\* are given a distance and a predecessor, in hex_neighbors order
RECURSIVE SeaVisit(_, _, _, _)
SeaVisit(sea, i, current, st) ==
    IF i > 6 THEN st
    ELSE LET n == hex_neighbors(current)[i]
         IN  IF n \notin sea \/ n \in DOMAIN st.distances
             THEN SeaVisit(sea, i + 1, current, st)
             ELSE SeaVisit(sea, i + 1, current,
                      [queue        |-> Append(st.queue, n),
                       distances    |-> st.distances @@ (n :> st.distances[current] + 1),
                       predecessors |-> st.predecessors @@ (n :> current)])

RECURSIVE SeaSearch(_, _, _)
SeaSearch(sea, st, end_sea) ==
    IF st.queue = <<>> THEN st
    ELSE LET current == Head(st.queue)
         IN  IF current = end_sea THEN st
             ELSE SeaSearch(sea,
                            SeaVisit(sea, 1, current, [st EXCEPT !.queue = Tail(st.queue)]),
                            end_sea)

RECURSIVE SeaBack(_, _)
SeaBack(predecessors, current) ==
    IF current \in DOMAIN predecessors
    THEN Append(SeaBack(predecessors, predecessors[current]), current)
    ELSE <<current>>

I32_MAX == 2147483647

\* the loops over start_sea and end_sea, keeping the first strictly shorter path
RECURSIVE SeaBest(_, _, _, _, _, _, _)
SeaBest(sea, starts, ends, k, from, to, best) ==
    IF k > Len(starts) * Len(ends) THEN best
    ELSE LET start_sea == starts[((k - 1) \div Len(ends)) + 1]
             end_sea   == ends[((k - 1) % Len(ends)) + 1]
             st        == SeaSearch(sea,
                                    [queue        |-> <<start_sea>>,
                                     distances    |-> (start_sea :> 0),
                                     predecessors |-> [c \in {} |-> c]], end_sea)
         IN  IF end_sea \in DOMAIN st.distances /\ st.distances[end_sea] < best.length
             THEN SeaBest(sea, starts, ends, k + 1, from, to,
                      [length |-> st.distances[end_sea],
                       path   |-> <<from>> \o SeaBack(st.predecessors, end_sea) \o <<to>>])
             ELSE SeaBest(sea, starts, ends, k + 1, from, to, best)

\* `tiles` gives the tile type at every coordinate of the map searched
find_sea_path(tiles, from, to) ==
    LET sea                   == {c \in DOMAIN tiles : tiles[c] = "Sea"}
        IsSea(c)              == c \in sea
        sea_neighbors_of_from == SelectSeq(hex_neighbors(from), IsSea)
        sea_neighbors_of_to   == SelectSeq(hex_neighbors(to), IsSea)
    IN  IF sea_neighbors_of_from = <<>> \/ sea_neighbors_of_to = <<>>
        THEN <<from, to>>
        ELSE SeaBest(sea, sea_neighbors_of_from, sea_neighbors_of_to, 1, from, to,
                     [length |-> I32_MAX, path |-> <<from, to>>]).path

\* variant: a Port is reached over land like any other tile
find_path_by_land(tiles, from, to) ==
    LET passable  == {c \in DOMAIN tiles : tiles[c] # "Sea"}
        distances == [c \in passable |-> BfsDistance({from}, {from}, passable, c, 0)]
    IN  IF from = to THEN {<<from>>}
        ELSE IF from \notin passable \/ to \notin passable THEN {}
        ELSE IF distances[to] < 0 THEN {}
        ELSE WalkBack(distances, from, to)

\* the paths find_path may return; the empty set stands for the result None
find_path(tiles, from, to) ==
    LET passable  == {c \in DOMAIN tiles : tiles[c] # "Sea"}
        distances == [c \in passable |-> BfsDistance({from}, {from}, passable, c, 0)]
    IN  IF from = to THEN {<<from>>}
        ELSE IF from \notin passable \/ to \notin passable THEN {}
        ELSE IF tiles[from] = "Port" /\ tiles[to] = "Port"
             THEN {find_sea_path(tiles, from, to)}
        ELSE IF distances[to] < 0 THEN {}
        ELSE WalkBack(distances, from, to)

(***************************************************************************)
(* Bounds of the model                                                     *)
(***************************************************************************)
\* end_turn is not taken once turn_number has reached MaxTurn
MaxTurn == 2

\* entity handles are 1..MaxEntities; no unit is spawned beyond that
MaxEntities == 5

\* segment_progress is counted in steps of 1/ProgressUnit
ProgressUnit == 2

\* delta_time * speed * game_speed of one frame is 1..MaxDelta such steps
MaxDelta == 2

\* the player's clicks are followed while fewer than MaxPlayerActions actions
\* of the turn are spent or fewer than MaxPlayerActions remain
MaxPlayerActions == 2

(***************************************************************************)
(* State (ecs.rs: the component tables and GameResources of GameWorld,     *)
(* and what the frame loop holds between steps)                            *)
(***************************************************************************)
VARIABLES
    tile_faction,           \* Tile.faction of the tile at each coordinate
    unit,                   \* live unit entities: Unit, HexPosition, Movement
    next_entity,            \* the handle the next spawned entity gets
    selected,               \* the entity tagged SELECTED, or None
    valid_move_tiles,
    previous_selected_unit,
    current_faction,
    actions_remaining,
    turn_number,
    faction_eliminated,
    faction_morale,
    speech_used,
    turn_order,
    current_unit_index,
    rng_seed,
    difficulty,
    player_faction,         \* the faction the human plays
    pending_spawns,         \* TurnTransition.pending_spawns not yet spawned
    phase,                  \* position of the frame loop
    ret                     \* what the last system call returned or emitted

vars == <<tile_faction, unit, next_entity, selected, valid_move_tiles,
          previous_selected_unit, current_faction, actions_remaining,
          turn_number, faction_eliminated, faction_morale, speech_used,
          turn_order, current_unit_index, rng_seed, difficulty,
          player_faction, pending_spawns, phase, ret>>

Entity == 1..MaxEntities

\* a unit entity: the Unit component, its HexPosition, and its Movement
\* component, absent when path is empty
Unit(faction, soldiers, morale, hex) ==
    [faction |-> faction, soldiers |-> soldiers, morale |-> morale,
     movement_range |-> UNIT_DEFAULT_MOVEMENT_RANGE, has_moved |-> FALSE,
     hex |-> hex, path |-> <<>>, current_segment |-> 0, segment_progress |-> 0]

has_movement(u) == u.path # <<>>

\* spawn_unit: the new unit takes the faction's morale of the moment
spawn_unit(U, entity, hex_coord, faction, soldiers, morale) ==
    U @@ (entity :> Unit(faction, soldiers, morale[faction], hex_coord))

despawn_unit(U, entity) == [e \in DOMAIN U \ {entity} |-> U[e]]

\* variant: a unit without a path is sent straight to the destination
move_unit_to_direct(tiles, U, unit_entity, destination) ==
    IF unit_entity \notin DOMAIN U THEN {U}
    ELSE LET paths == find_path(tiles, U[unit_entity].hex, destination)
                          \cup {<<U[unit_entity].hex, destination>>}
         IN  {IF Len(path) < 2 THEN U
              ELSE [U EXCEPT ![unit_entity].path = path,
                             ![unit_entity].current_segment = 0,
                             ![unit_entity].segment_progress = 0] :
              path \in paths}

\* the tables move_unit_to may leave: a Movement along a found path, or
\* nothing changed when the unit or the path is missing or the path is short
move_unit_to(tiles, U, unit_entity, destination) ==
    IF unit_entity \notin DOMAIN U THEN {U}
    ELSE LET paths == find_path(tiles, U[unit_entity].hex, destination)
         IN  IF paths = {} THEN {U}
             ELSE {IF Len(path) < 2 THEN U
                   ELSE [U EXCEPT ![unit_entity].path = path,
                                  ![unit_entity].current_segment = 0,
                                  ![unit_entity].segment_progress = 0] :
                   path \in paths}

get_faction_morale(morale, faction) == morale[faction]

modify_faction_morale(morale, faction, delta) ==
    [morale EXCEPT ![faction] = Clamp(@ + delta, -50, 50)]

\* the entities a lookup by coordinate may return
units_at(U, coord) == {e \in DOMAIN U : U[e].hex = coord}

\* get_unit_at_tile: the first unit the query finds at the coordinate
get_unit_at_tile(U, coord) ==
    IF units_at(U, coord) = {} THEN {NoEntity} ELSE units_at(U, coord)

\* variant: the turn may end whatever the units do
can_end_turn_always(U) == TRUE

can_end_turn(U) == \A e \in DOMAIN U : ~has_movement(U[e])

(***************************************************************************)
(* Combat (combat.rs)                                                      *)
(***************************************************************************)
\* soldiers as f32 * (1.0 + morale as f32 / 100.0)
combat_strength(u) ==
    F32Mul(F32FromInt(u.soldiers),
           F32Add(F32FromInt(1), F32Div(F32FromInt(u.morale), F32FromInt(100))))

\* variant: the attacker also wins when the strengths are equal
attacker_wins_ties(attacker_strength, defender_strength) ==
    ~F32Gt(defender_strength, attacker_strength)

attacker_wins(attacker_strength, defender_strength) ==
    F32Gt(attacker_strength, defender_strength)

\* variant: the winner loses half of the loser's soldiers
attacker_casualties_half(defender) ==
    F32Floor(F32Mul(F32FromInt(defender.soldiers), F32Lit(5, 10)))

attacker_casualties(defender) ==
    F32Floor(F32Mul(F32FromInt(defender.soldiers), F32Lit(7, 10)))

defender_casualties(attacker) ==
    F32Floor(F32Mul(F32FromInt(attacker.soldiers), F32Lit(5, 10)))

update_tile_ownership(T, coord, faction) ==
    IF coord \in Coords THEN [T EXCEPT ![coord] = faction] ELSE T

\* the result None of resolve_combat
NoResult ==
    [attacker_faction |-> None, defender_faction |-> None,
     attacker_survived |-> FALSE, defender_survived |-> FALSE]

CombatResult(attacker_faction, defender_faction, attacker_survived, defender_survived) ==
    [attacker_faction |-> attacker_faction, defender_faction |-> defender_faction,
     attacker_survived |-> attacker_survived, defender_survived |-> defender_survived]

\* the outcomes of resolve_combat on unit table U, tile owners T and faction
\* morale M: the tables it leaves and the Option<CombatResult> it returns
resolve_combat(U, T, M, attacker_entity, defender_entity) ==
    IF attacker_entity \notin DOMAIN U \/ defender_entity \notin DOMAIN U
    THEN {[unit |-> U, tile_faction |-> T, faction_morale |-> M, result |-> NoResult]}
    ELSE
    LET attacker          == U[attacker_entity]
        defender          == U[defender_entity]
        defender_hex      == defender.hex
        attacker_faction  == attacker.faction
        defender_faction  == defender.faction
        defense_bonus     == get_defense_bonus_at(defender_hex)
        attacker_strength == combat_strength(attacker)
        defender_strength == F32Mul(combat_strength(defender), defense_bonus)
    IN  IF attacker_wins(attacker_strength, defender_strength)
        THEN LET attacker_new_soldiers == attacker.soldiers - attacker_casualties(defender)
                 attacker_survived     == attacker_new_soldiers > 0
                 U1 == despawn_unit(U, defender_entity)
                 U2 == IF attacker_entity \in DOMAIN U1
                       THEN [U1 EXCEPT ![attacker_entity].soldiers = attacker_new_soldiers,
                                       ![attacker_entity].has_moved = TRUE]
                       ELSE U1
                 M2 == modify_faction_morale(
                           modify_faction_morale(M, attacker_faction, 2),
                           defender_faction, -2)
                 result == CombatResult(attacker_faction, defender_faction,
                                        attacker_survived, FALSE)
             IN  IF attacker_survived
                 THEN {[unit |-> U3,
                        tile_faction |-> update_tile_ownership(T, defender_hex, attacker_faction),
                        faction_morale |-> M2, result |-> result] :
                       U3 \in move_unit_to(Board, U2, attacker_entity, defender_hex)}
                 ELSE {[unit |-> despawn_unit(U1, attacker_entity), tile_faction |-> T,
                        faction_morale |-> M2, result |-> result]}
        ELSE LET defender_new_soldiers == defender.soldiers - defender_casualties(attacker)
                 defender_survived     == defender_new_soldiers > 0
                 U1 == despawn_unit(U, attacker_entity)
                 U2 == IF defender_survived
                       THEN IF defender_entity \in DOMAIN U1
                            THEN [U1 EXCEPT ![defender_entity].soldiers = defender_new_soldiers]
                            ELSE U1
                       ELSE despawn_unit(U1, defender_entity)
                 M2 == modify_faction_morale(
                           modify_faction_morale(M, defender_faction, 2),
                           attacker_faction, -2)
             IN  {[unit |-> U2, tile_faction |-> T, faction_morale |-> M2,
                   result |-> CombatResult(attacker_faction, defender_faction,
                                           FALSE, defender_survived)]}

(***************************************************************************)
(* Movement (movement.rs)                                                  *)
(***************************************************************************)
\* the while loop that carries excess progress over further segments
RECURSIVE carry_excess(_, _, _, _)
\* variant: the excess is not carried beyond the segment reached
carry_excess_once(path, current_segment, remaining_progress, current_hex) ==
    [current_segment |-> current_segment, remaining_progress |-> remaining_progress,
     current_hex |-> current_hex]

carry_excess(path, current_segment, remaining_progress, current_hex) ==
    IF remaining_progress >= ProgressUnit /\ current_segment < Len(path) - 1
    THEN carry_excess(path, current_segment + 1, remaining_progress - ProgressUnit,
                      path[current_segment + 2])
    ELSE [current_segment |-> current_segment, remaining_progress |-> remaining_progress,
          current_hex |-> current_hex]

\* variant: a unit that arrives keeps its Movement
movement_step_keeps(u, delta) ==
    IF ~has_movement(u) THEN u
    ELSE IF u.current_segment >= Len(u.path) - 1
    THEN [u EXCEPT !.hex = u.path[Len(u.path)]]
    ELSE LET to_hex       == u.path[u.current_segment + 2]
             new_progress == u.segment_progress + delta
         IN  IF new_progress < ProgressUnit
             THEN [u EXCEPT !.segment_progress = new_progress]
             ELSE LET c == carry_excess(u.path, u.current_segment + 1,
                                        new_progress - ProgressUnit, to_hex)
                  IN  [u EXCEPT !.hex = c.current_hex,
                                !.current_segment = c.current_segment,
                                !.segment_progress = c.remaining_progress]

\* one movement_system step of one entity, progress advancing by delta
movement_step(u, delta) ==
    IF ~has_movement(u) THEN u
    ELSE IF u.current_segment >= Len(u.path) - 1
    THEN [u EXCEPT !.hex = u.path[Len(u.path)],
                   !.path = <<>>, !.current_segment = 0, !.segment_progress = 0]
    ELSE LET to_hex       == u.path[u.current_segment + 2]
             new_progress == u.segment_progress + delta
         IN  IF new_progress < ProgressUnit
             THEN [u EXCEPT !.segment_progress = new_progress]
             ELSE LET c == carry_excess(u.path, u.current_segment + 1,
                                        new_progress - ProgressUnit, to_hex)
                      is_complete == c.current_segment >= Len(u.path) - 1
                  IN  IF is_complete
                      THEN [u EXCEPT !.hex = u.path[Len(u.path)],
                                     !.path = <<>>, !.current_segment = 0,
                                     !.segment_progress = 0]
                      ELSE [u EXCEPT !.hex = c.current_hex,
                                     !.current_segment = c.current_segment,
                                     !.segment_progress = c.remaining_progress]

movement_system(U, delta) == [e \in DOMAIN U |-> movement_step(U[e], delta)]

(***************************************************************************)
(* Iteration order.  The code collects units and tiles into HashMaps and   *)
(* walks entity queries; the order of both is not fixed by the program, so *)
(* "the first found" is any of the candidates and a map keyed by           *)
(* coordinate keeps any one of the units standing on it.                   *)
(***************************************************************************)
\* the functions that pick one option per element of dom
RECURSIVE Choices(_, _)
Choices(dom, opts) ==
    IF dom = {} THEN {[x \in {} |-> x]}
    ELSE LET c == CHOOSE x \in dom : TRUE
         IN  {(c :> v) @@ f : v \in opts[c], f \in Choices(dom \ {c}, opts)}

\* the sequences that list every element of S once
RECURSIVE Orders(_)
Orders(S) ==
    IF S = {} THEN {<<>>}
    ELSE UNION {{<<x>> \o s : s \in Orders(S \ {x})} : x \in S}

occupied(U) == {U[e].hex : e \in DOMAIN U}

\* the possible HashMap<HexCoord, Entity> of the units
unit_positions(U) == Choices(occupied(U), [c \in occupied(U) |-> units_at(U, c)])

(***************************************************************************)
(* Tile ownership and morale (tile_ownership.rs)                           *)
(***************************************************************************)
morale_change_for_capture(tile_type, was_enemy) ==
    CASE tile_type = "Capital" /\ was_enemy  -> 10
      [] tile_type = "City" /\ was_enemy     -> 3
      [] tile_type = "City" /\ ~was_enemy    -> 2
      [] tile_type = "Port" /\ was_enemy     -> 2
      [] tile_type = "Port" /\ ~was_enemy    -> 1
      [] OTHER                               -> IF was_enemy THEN 1 ELSE 0

morale_change_for_loss(tile_type) ==
    CASE tile_type \in {"City", "Capital"} -> -3
      [] tile_type = "Port"                -> -2
      [] OTHER                             -> -1

\* the values a faction's morale may end at when the deltas of `changes`
\* (records with a delta field) are applied one after the other
RECURSIVE apply_morale_changes(_, _)
apply_morale_changes(m, changes) ==
    IF changes = {} THEN {m}
    ELSE UNION {apply_morale_changes(Clamp(m + ch.delta, -50, 50), changes \ {ch}) :
                ch \in changes}

\* variant: Sea tiles are taken like any other tile
tile_ownership_with_sea(U, T, M) ==
    {LET taken    == {c \in DOMAIN pos \cap Coords : T[c] # U[pos[c]].faction}
         newowner == [c \in taken |-> U[pos[c]].faction]
     IN  [tile_faction |-> [c \in Coords |-> IF c \in taken THEN newowner[c] ELSE T[c]],
          morale_options |-> [f \in Faction |-> {M[f]}],
          captures |-> {[coord |-> c, tile_type |-> Board[c], faction |-> newowner[c]] :
                        c \in {x \in taken : Board[x] \in {"City", "Port", "Capital"}}}] :
     pos \in unit_positions(U)}

\* the outcomes of tile_ownership_system: owners, morale and the captures
tile_ownership_system(U, T, M) ==
    {LET taken    == {c \in DOMAIN pos \cap Coords :
                          Board[c] # "Sea" /\ T[c] # U[pos[c]].faction}
         newowner == [c \in taken |-> U[pos[c]].faction]
         gains    == {[coord |-> c, faction |-> newowner[c],
                       delta |-> morale_change_for_capture(Board[c], T[c] # None)] :
                      c \in taken}
         losses   == {[coord |-> c, faction |-> T[c],
                       delta |-> morale_change_for_loss(Board[c])] :
                      c \in {x \in taken : T[x] # None}}
         changes  == {g \in gains : g.delta > 0} \cup losses
     IN  [tile_faction |-> [c \in Coords |-> IF c \in taken THEN newowner[c] ELSE T[c]],
          morale_options |-> [f \in Faction |->
              apply_morale_changes(M[f], {ch \in changes : ch.faction = f})],
          captures |-> {[coord |-> c, tile_type |-> Board[c], faction |-> newowner[c]] :
                        c \in {x \in taken : Board[x] \in {"City", "Port", "Capital"}}}] :
     pos \in unit_positions(U)}

\* variant: the tiles of an eliminated faction stay its own
keep_tiles(T, faction) == T

\* every tile the faction owns becomes neutral
release_tiles(T, faction) ==
    [c \in Coords |-> IF T[c] = faction THEN None ELSE T[c]]

(***************************************************************************)
(* Elimination and victory (victory.rs)                                    *)
(***************************************************************************)
\* the loop over faction_idx, from idx on; W carries the tables it mutates
RECURSIVE elimination_pass(_, _)
elimination_pass(idx, W) ==
    IF idx > 3 THEN W
    ELSE LET faction       == faction_from_index(idx)
             capital_coord == get_capital_coord(faction)
             capital_owner == IF capital_coord \in Coords /\ Board[capital_coord] = "Capital"
                              THEN W.tile_faction[capital_coord] ELSE None
         IN  IF ~W.faction_eliminated[faction] /\ capital_owner # None
                /\ capital_owner # faction
             THEN elimination_pass(idx + 1,
                      [unit |-> [e \in {x \in DOMAIN W.unit : W.unit[x].faction # faction}
                                    |-> W.unit[e]],
                       tile_faction |-> release_tiles(W.tile_faction, faction),
                       faction_eliminated |-> [W.faction_eliminated EXCEPT ![faction] = TRUE],
                       events |-> Append(W.events, faction)])
             ELSE elimination_pass(idx + 1, W)

\* variant: a victor is named while two factions are left
game_result_of_two(eliminated) ==
    LET alive == {f \in Faction : ~eliminated[f]}
    IN  IF alive # {} /\ Cardinality(alive) <= 2 THEN CHOOSE f \in alive : TRUE
        ELSE "Ongoing"

\* GameResult: "Ongoing", or the victorious faction
game_result(eliminated) ==
    LET alive == {f \in Faction : ~eliminated[f]}
    IN  IF Cardinality(alive) = 1 THEN CHOOSE f \in alive : TRUE ELSE "Ongoing"

victory_system(U, T, E) ==
    LET W == elimination_pass(0, [unit |-> U, tile_faction |-> T,
                                  faction_eliminated |-> E, events |-> <<>>])
    IN  [unit |-> W.unit, tile_faction |-> W.tile_faction,
         faction_eliminated |-> W.faction_eliminated, events |-> W.events,
         result |-> game_result(W.faction_eliminated)]

(***************************************************************************)
(* Reinforcement (reinforcement.rs)                                        *)
(***************************************************************************)
\* variant: a pending spawn of a single soldier
pending_spawn_of_one(coord, faction, soldiers) ==
    [coord |-> coord, faction |-> faction, soldiers |-> 1]

PendingSpawn(coord, faction, soldiers) ==
    [coord |-> coord, faction |-> faction, soldiers |-> soldiers]

ToU32(n) == <<n \div 65536, n % 65536>>

\* 1 + (rng_seed as i32 % 3)
port_reinforcement(seed) == 1 + I32Rem(seed, 3)

next_seed(seed) == wrapping_add(wrapping_mul(seed, ToU32(1103515245)), ToU32(12345))

\* variant: no cap on the soldiers of a unit
add_soldiers_uncapped(u, amount) == [u EXCEPT !.soldiers = u.soldiers + amount]

add_soldiers(u, amount) == [u EXCEPT !.soldiers = Min(u.soldiers + amount, MAX_SOLDIERS)]

\* the coordinates of S as a sequence, by column and row; pending spawns are
\* listed in this order, the order of the code's HashMap being arbitrary
RECURSIVE coord_seq(_)
coord_seq(S) ==
    IF S = {} THEN <<>>
    ELSE LET c == CHOOSE x \in S : \A y \in S :
                      x[1] < y[1] \/ (x[1] = y[1] /\ x[2] <= y[2])
         IN  <<c>> \o coord_seq(S \ {c})

\* the loop over the Ports of the current faction, taken in the order `ports`
RECURSIVE port_loop(_, _, _, _, _, _)
port_loop(ports, U, seed, pos, current, events) ==
    IF ports = <<>> THEN {[unit |-> U, rng_seed |-> seed, events |-> events]}
    ELSE LET coord   == Head(ports)
             bonus   == port_reinforcement(seed)
             near    == {c \in DOMAIN pos : pos[c] \in DOMAIN U
                             /\ U[pos[c]].faction = current
                             /\ hex_distance(coord, c) <= 3}
             closest == {c \in near : \A o \in near :
                             hex_distance(coord, c) <= hex_distance(coord, o)}
         IN  IF closest = {}
             THEN port_loop(Tail(ports), U, next_seed(seed), pos, current, events)
             ELSE UNION {port_loop(Tail(ports),
                                   [U EXCEPT ![pos[c]] = add_soldiers(@, bonus)],
                                   next_seed(seed), pos, current,
                                   events \cup {[location_name |-> "port", coord |-> coord,
                                                 entity |-> pos[c], soldiers |-> bonus]}) :
                         c \in closest}

\* the outcomes of reinforcement_system for one choice of unit_positions
reinforcement_with(U, T, seed, current, pos) ==
    LET granted   == {c \in Coords : T[c] = current /\ Board[c] \in {"City", "Capital"}}
        garrison  == {c \in granted \cap DOMAIN pos : U[pos[c]].faction = current}
        vacant    == granted \ DOMAIN pos
        U1        == [e \in DOMAIN U |->
                         IF \E c \in garrison : pos[c] = e
                         THEN add_soldiers(U[e], CITY_REINFORCEMENT) ELSE U[e]]
        events1   == {[location_name |-> IF Board[c] = "Capital" THEN "capital" ELSE "city",
                       coord |-> c, entity |-> IF c \in garrison THEN pos[c] ELSE NoEntity,
                       soldiers |-> CITY_REINFORCEMENT] : c \in garrison \cup vacant}
        spawns1   == [i \in 1..Cardinality(vacant) |->
                         PendingSpawn(coord_seq(vacant)[i], current, CITY_REINFORCEMENT)]
        ports     == {c \in Coords : Board[c] = "Port" /\ T[c] = current}
        territory_count == Cardinality({c \in Coords : T[c] = current /\ Board[c] # "Sea"})
        territory_bonus == territory_count \div 10
        capital_coord   == get_capital_coord(current)
    IN  {LET U2 == after.unit
         IN  IF territory_bonus > 0 /\ capital_coord \in DOMAIN pos
             THEN IF U2[pos[capital_coord]].faction = current
                  THEN [unit |-> [U2 EXCEPT ![pos[capital_coord]] =
                                      add_soldiers(@, territory_bonus)],
                        rng_seed |-> after.rng_seed, pending_spawns |-> spawns1,
                        events |-> after.events \cup
                            {[location_name |-> "territory", coord |-> capital_coord,
                              entity |-> pos[capital_coord], soldiers |-> territory_bonus]}]
                  ELSE [unit |-> U2, rng_seed |-> after.rng_seed,
                        pending_spawns |-> spawns1, events |-> after.events]
             ELSE IF territory_bonus > 0 /\ capital_coord \in Coords
                     /\ T[capital_coord] = current
             THEN [unit |-> U2, rng_seed |-> after.rng_seed,
                   pending_spawns |-> Append(spawns1,
                       PendingSpawn(capital_coord, current, Max(territory_bonus, 1))),
                   events |-> after.events \cup
                       {[location_name |-> "territory", coord |-> capital_coord,
                         entity |-> NoEntity, soldiers |-> Max(territory_bonus, 1)]}]
             ELSE [unit |-> U2, rng_seed |-> after.rng_seed,
                   pending_spawns |-> spawns1, events |-> after.events] :
         after \in UNION {port_loop(order, U1, seed, pos, current, events1) :
                          order \in Orders(ports)}}

reinforcement_system(U, T, seed, current) ==
    UNION {reinforcement_with(U, T, seed, current, pos) : pos \in unit_positions(U)}

(***************************************************************************)
(* Turn control (turn.rs, ai.rs: build_turn_order)                         *)
(***************************************************************************)
\* variant: at most one eliminated faction is skipped
skip_one(next, attempts, eliminated) ==
    IF eliminated[next] THEN next_faction(next) ELSE next

\* the faction-skip loop of end_turn
RECURSIVE skip_eliminated(_, _, _)
skip_eliminated(next, attempts, eliminated) ==
    IF attempts < 4 /\ eliminated[next]
    THEN skip_eliminated(next_faction(next), attempts + 1, eliminated)
    ELSE next

\* the turn orders build_turn_order may produce
build_turn_order(U, current) == Orders({e \in DOMAIN U : U[e].faction = current})

\* variant: the has_moved flags are left as they are
keep_has_moved(U) == U

reset_has_moved(U) == [e \in DOMAIN U |-> [U[e] EXCEPT !.has_moved = FALSE]]

(***************************************************************************)
(* Reachable tiles (valid_moves.rs) and selection (selection.rs)           *)
(***************************************************************************)
\* variant: the other Ports are not inserted
calculate_valid_moves_by_land(tiles, U, unit_entity, unit_hex, movement_range) ==
    LET passable == {c \in DOMAIN tiles : tiles[c] # "Sea"}
        first    == NeighborSet(unit_hex) \cap passable
    IN  (BfsWithin(first, {unit_hex} \cup first, passable, movement_range - 1)
            \ {unit_hex}) \ {U[e].hex : e \in DOMAIN U \ {unit_entity}}

\* the search inserts the start, then its passable neighbours, then (from a
\* Port) every other Port at distance movement_range without queueing it
calculate_valid_moves(tiles, U, unit_entity, unit_hex, movement_range) ==
    IF movement_range <= 0 THEN {}
    ELSE LET others    == {U[e].hex : e \in DOMAIN U \ {unit_entity}}
             passable  == {c \in DOMAIN tiles : tiles[c] # "Sea"}
             ports     == {c \in DOMAIN tiles : tiles[c] = "Port"}
             first     == NeighborSet(unit_hex) \cap passable
             far_ports == IF unit_hex \in ports
                          THEN ports \ ({unit_hex} \cup first) ELSE {}
             reached   == BfsWithin(first, {unit_hex} \cup first \cup far_ports,
                                    passable, movement_range - 1)
         IN  (reached \ {unit_hex}) \ others

get_selected_unit(U, sel) == IF sel \in DOMAIN U THEN sel ELSE NoEntity

\* a world W is the record of the tables and resources a system mutates
clear_selection(W) == [W EXCEPT !.selected = NoEntity, !.valid_move_tiles = {}]

select_unit(W, entity) == [clear_selection(W) EXCEPT !.selected = entity]

valid_moves_system(W) ==
    LET current_selected == get_selected_unit(W.unit, W.selected)
    IN  IF current_selected = W.previous_selected_unit THEN W
        ELSE [W EXCEPT !.valid_move_tiles =
                           IF current_selected = NoEntity THEN {}
                           ELSE calculate_valid_moves(Board, W.unit, current_selected,
                                    W.unit[current_selected].hex,
                                    W.unit[current_selected].movement_range),
                       !.previous_selected_unit = current_selected]

(***************************************************************************)
(* Player input (input.rs)                                                 *)
(***************************************************************************)
get_friendly_ports(T, faction) == {c \in Coords : Board[c] = "Port" /\ T[c] = faction}

is_unit_on_friendly_port(T, unit_hex, faction) ==
    unit_hex \in Coords /\ Board[unit_hex] = "Port" /\ T[unit_hex] = faction

\* the unit table after merge_units, in a set that is empty where it returns
\* None; the morale division panics on a total of zero, no merge being made
merge_units(U, source_entity, target_entity) ==
    IF source_entity \notin DOMAIN U \/ target_entity \notin DOMAIN U THEN {}
    ELSE LET source_unit    == U[source_entity]
             target_unit    == U[target_entity]
             total_soldiers == source_unit.soldiers + target_unit.soldiers
             new_soldiers   == Min(total_soldiers, MAX_SOLDIERS)
         IN  IF source_unit.faction # target_unit.faction \/ total_soldiers = 0 THEN {}
             ELSE {despawn_unit(
                      [U EXCEPT ![target_entity].soldiers = new_soldiers,
                                ![target_entity].morale =
                                    TruncDiv(source_unit.soldiers * source_unit.morale
                                             + target_unit.soldiers * target_unit.morale,
                                             total_soldiers)],
                      source_entity)}

is_valid_merge_target(U, source_entity, source_hex, target_hex, movement_range) ==
    LET reachable_tiles == calculate_valid_moves(Board, U, source_entity, source_hex, movement_range)
    IN  /\ \E entity \in DOMAIN U \ {source_entity} : U[entity].hex = target_hex
        /\ \/ \E tile \in reachable_tiles : hex_distance(tile, target_hex) <= 1
           \/ hex_distance(source_hex, target_hex) = 1

\* what a system reports of a combat it resolved: the two entities, the units
\* and the owner of the defender's tile as resolve_combat found them, and the
\* CombatResult it returned; NoCombat when it resolved none
NoUnit == Unit(None, 0, 0, <<0, 0>>)

NoCombat ==
    [attacker |-> NoEntity, defender |-> NoEntity, attacker_unit |-> NoUnit,
     defender_unit |-> NoUnit, owner |-> None, result |-> NoResult]

Combat(W, attacker_entity, defender_entity, result) ==
    IF result = NoResult THEN NoCombat
    ELSE [attacker |-> attacker_entity, defender |-> defender_entity,
          attacker_unit |-> W.unit[attacker_entity],
          defender_unit |-> W.unit[defender_entity],
          owner |-> W.tile_faction[W.unit[defender_entity].hex],
          result |-> result]

\* variant: a move spends two actions
input_move_two_actions(W, selected_entity, hovered_tile) ==
    {clear_selection([W EXCEPT !.unit = [U2 EXCEPT ![selected_entity].has_moved = TRUE],
                               !.actions_remaining = @ - 2]) :
     U2 \in move_unit_to(Board, W.unit, selected_entity, hovered_tile)}

\* the move branches: Movement added, has_moved set, one action spent
input_move(W, selected_entity, hovered_tile) ==
    {clear_selection([W EXCEPT !.unit = [U2 EXCEPT ![selected_entity].has_moved = TRUE],
                               !.actions_remaining = @ - 1]) :
     U2 \in move_unit_to(Board, W.unit, selected_entity, hovered_tile)}

\* variant: an attack spends no action
input_attack_free(W, selected_entity, clicked_unit) ==
    {clear_selection([W EXCEPT !.unit = o.unit, !.tile_faction = o.tile_faction,
                               !.faction_morale = o.faction_morale,
                               !.combat = Combat(W, selected_entity, clicked_unit, o.result)]) :
     o \in resolve_combat(W.unit, W.tile_faction, W.faction_morale,
                          selected_entity, clicked_unit)}

input_attack(W, selected_entity, clicked_unit) ==
    {clear_selection([W EXCEPT !.unit = o.unit, !.tile_faction = o.tile_faction,
                               !.faction_morale = o.faction_morale,
                               !.actions_remaining = IF o.result # NoResult THEN @ - 1 ELSE @,
                               !.combat = Combat(W, selected_entity, clicked_unit, o.result)]) :
     o \in resolve_combat(W.unit, W.tile_faction, W.faction_morale,
                          selected_entity, clicked_unit)}

\* a left click on hovered_tile, unit_at_tile being what get_unit_at_tile found
input_click(W, hovered_tile, current, unit_at_tile) ==
    LET U   == W.unit
        sel == get_selected_unit(U, W.selected)
        ar  == W.actions_remaining
    IN  IF sel # NoEntity
        THEN IF hovered_tile \in W.valid_move_tiles /\ ar > 0
             THEN input_move(W, sel, hovered_tile)
             ELSE IF /\ ~U[sel].has_moved /\ ar > 0
                     /\ is_unit_on_friendly_port(W.tile_faction, U[sel].hex, current)
                     /\ hovered_tile \in get_friendly_ports(W.tile_faction, current)
                     /\ unit_at_tile = NoEntity /\ U[sel].hex # hovered_tile
             THEN input_move(W, sel, hovered_tile)
             ELSE IF unit_at_tile = NoEntity THEN {W}
             ELSE IF /\ U[unit_at_tile].faction # current /\ ar > 0
                     /\ hex_distance(U[sel].hex, hovered_tile) = 1
             THEN input_attack(W, sel, unit_at_tile)
             ELSE IF U[unit_at_tile].faction = current /\ unit_at_tile # sel
             THEN IF /\ ~U[sel].has_moved /\ ar > 0
                     /\ is_valid_merge_target(U, sel, U[sel].hex, hovered_tile,
                                              U[sel].movement_range)
                     /\ merge_units(U, sel, unit_at_tile) # {}
                  THEN {clear_selection([W EXCEPT !.unit = U2,
                                                  !.actions_remaining = @ - 1,
                                                  !.merged = TRUE]) :
                        U2 \in merge_units(U, sel, unit_at_tile)}
                  ELSE {select_unit(W, unit_at_tile)}
             ELSE IF unit_at_tile = sel THEN {clear_selection(W)}
             ELSE {W}
        ELSE IF unit_at_tile # NoEntity /\ U[unit_at_tile].faction = current /\ ar > 0
             THEN {select_unit(W, unit_at_tile)}
             ELSE {W}

\* click is "right", "left" or "none"; hovered_tile a coordinate or None
input_system(W, click, hovered_tile, current) ==
    IF click = "right" THEN {clear_selection(W)}
    ELSE IF click # "left" \/ hovered_tile = None THEN {W}
    ELSE UNION {input_click(W, hovered_tile, current, unit_at_tile) :
                unit_at_tile \in get_unit_at_tile(W.unit, hovered_tile)}

\* speech.rs
speech_system(W, requested, current) ==
    IF requested /\ ~W.speech_used
    THEN [W EXCEPT !.unit = [e \in DOMAIN W.unit |->
                                IF W.unit[e].faction = current
                                THEN [W.unit[e] EXCEPT !.morale =
                                         Min(@ + SPEECH_MORALE_BOOST, MAX_MORALE)]
                                ELSE W.unit[e]],
                   !.speech_used = TRUE]
    ELSE W

(***************************************************************************)
(* AI opponent (ai.rs)                                                     *)
(***************************************************************************)
get_attack_threshold(d, is_capital) ==
    LET base == CASE d = "Easy"   -> F32Lit(8, 10)
                  [] d = "Normal" -> F32Lit(7, 10)
                  [] OTHER        -> F32Lit(6, 10)
    IN  IF is_capital THEN F32Sub(base, F32Lit(2, 10)) ELSE base

\* u32 % n
U32Rem(a, n) == ((a[1] % n) * (65536 % n) + (a[2] % n)) % n

should_make_suboptimal_move(d, seed, turn, unit_index) ==
    /\ d = "Easy"
    /\ U32Rem(wrapping_add(wrapping_mul(wrapping_add(wrapping_mul(seed, ToU32(31)),
                                                     ToU32(turn)),
                                        ToU32(17)),
                           ToU32(unit_index)), 5) = 0

should_prefer_human_target(d) == d \in {"Normal", "Hard"}

\* variant: no difficulty keeps the AI factions from attacking each other
never_avoid_ai_vs_ai(d) == FALSE

should_avoid_ai_vs_ai(d) == d = "Hard"

\* calculate_win_chance(...) > attack_threshold; a zero sum of strengths
\* makes the quotient infinite or NaN
win_chance_exceeds(attacker, defender, defense_bonus, attack_threshold) ==
    LET attacker_strength == combat_strength(attacker)
        defender_strength == F32Mul(combat_strength(defender), defense_bonus)
        sum               == F32Add(attacker_strength, defender_strength)
    IN  IF sum = F32Zero THEN attacker_strength[1] = 1
        ELSE F32Gt(F32Div(attacker_strength, sum), attack_threshold)

\* the elements of S with the least key; min_by_key over a collection whose
\* order the program does not fix returns any of them
nearest(S, target) ==
    {c \in S : \A o \in S : hex_distance(c, target) <= hex_distance(o, target)}

\* the first of the capitals, in faction order, at the least distance, in a
\* set that is empty when no enemy faction is left
closest_enemy_capital(unit_hex, current, eliminated) ==
    LET enemies == {f \in Faction : f # current /\ ~eliminated[f]}
        best    == {f \in enemies : \A g \in enemies :
                        hex_distance(unit_hex, get_capital_coord(f))
                            <= hex_distance(unit_hex, get_capital_coord(g))}
    IN  {get_capital_coord(f) : f \in {x \in best :
             \A g \in best : faction_index(x) <= faction_index(g)}}

\* variant: the unit after the current one is passed over as well
ai_skip_two(W) == [W EXCEPT !.current_unit_index = @ + 2]

\* variant: the unit index stays where it is
ai_skip_none(W) == W

ai_skip(W) == [W EXCEPT !.current_unit_index = @ + 1]

ai_mark_moved(W, unit_entity) ==
    IF unit_entity \in DOMAIN W.unit
    THEN [W EXCEPT !.unit[unit_entity].has_moved = TRUE] ELSE W

ai_move(W, unit_entity, destination) ==
    {ai_skip([W EXCEPT !.unit = [U2 EXCEPT ![unit_entity].has_moved = TRUE],
                       !.actions_remaining = @ - 1]) :
     U2 \in move_unit_to(Board, W.unit, unit_entity, destination)}

ai_attack(W, unit_entity, enemy_entity) ==
    {ai_skip(ai_mark_moved([W EXCEPT !.unit = o.unit, !.tile_faction = o.tile_faction,
                                     !.faction_morale = o.faction_morale,
                                     !.actions_remaining = @ - 1,
                                     !.combat = Combat(W, unit_entity, enemy_entity, o.result)],
                           unit_entity)) :
     o \in resolve_combat(W.unit, W.tile_faction, W.faction_morale,
                          unit_entity, enemy_entity)}

\* steps 5 to 9 of the decision of one unit: recall, city, target
ai_movement(W, unit_entity, current, eliminated) ==
    LET U           == W.unit
        unit_hex    == U[unit_entity].hex
        my_capital  == get_capital_coord(current)
        enemy_units == {e \in DOMAIN U : U[e].faction # current}
        enemy_hexes == {U[e].hex : e \in enemy_units}
        valid_moves == calculate_valid_moves(Board, U, unit_entity, unit_hex,
                                             U[unit_entity].movement_range)
        threat_to_capital == \E h \in enemy_hexes : hex_distance(h, my_capital) <= 3
        undefended_cities == {c \in Coords : Board[c] \in {"City", "Capital"}
                                  /\ W.tile_faction[c] # current /\ c \notin enemy_hexes}
        capital     == closest_enemy_capital(unit_hex, current, eliminated)
        unclaimed   == {c \in Coords : Board[c] # "Sea" /\ W.tile_faction[c] = None}
        targets     == IF capital # {} THEN capital
                       ELSE IF enemy_hexes # {} THEN nearest(enemy_hexes, unit_hex)
                       ELSE nearest(unclaimed, unit_hex)
    IN  IF valid_moves = {} THEN {ai_skip(ai_mark_moved(W, unit_entity))}
        ELSE IF threat_to_capital /\ hex_distance(unit_hex, my_capital) > 2
        THEN UNION {ai_move(W, unit_entity, d) : d \in nearest(valid_moves, my_capital)}
        ELSE IF undefended_cities \cap valid_moves # {}
        THEN UNION {ai_move(W, unit_entity, d) : d \in undefended_cities \cap valid_moves}
        ELSE IF targets = {} THEN {ai_skip(W)}
        ELSE UNION {ai_move(W, unit_entity, d) :
                    d \in UNION {nearest(valid_moves, t) : t \in targets}}

\* variant: the turn is reported complete while a unit is still moving
ai_turn_done_moving(W, player, current) ==
    /\ current # player
    /\ \/ W.actions_remaining = 0
       \/ W.turn_order = <<>>
       \/ W.current_unit_index >= Len(W.turn_order)

\* TRUE when ai_turn_system returns true: the faction's turn is resolved
ai_turn_done(W, player, current) ==
    /\ current # player
    /\ can_end_turn(W.unit)
    /\ \/ W.actions_remaining = 0
       \/ W.turn_order = <<>>
       \/ W.current_unit_index >= Len(W.turn_order)

\* the worlds ai_turn_system may leave when it returns false
ai_turn_system(W, player, current, d, seed, turn, eliminated) ==
    IF current = player \/ ~can_end_turn(W.unit) THEN {W}
    ELSE IF ai_turn_done(W, player, current) THEN {W}
    ELSE
    LET U             == W.unit
        current_index == W.current_unit_index
        unit_entity   == W.turn_order[current_index + 1]
    IN  IF unit_entity \notin DOMAIN U THEN {ai_skip(W)}
        ELSE IF U[unit_entity].has_moved THEN {ai_skip(W)}
        ELSE IF should_make_suboptimal_move(d, seed, turn, current_index)
        THEN {ai_skip(ai_mark_moved(W, unit_entity))}
        ELSE
        LET u          == U[unit_entity]
            adjacent   == {e \in DOMAIN U : U[e].faction # current
                               /\ hex_distance(u.hex, U[e].hex) = 1}
            qualifying == {e \in adjacent :
                               /\ ~(should_avoid_ai_vs_ai(d) /\ U[e].faction # player)
                               /\ win_chance_exceeds(u, U[e], get_defense_bonus_at(U[e].hex),
                                      get_attack_threshold(d,
                                          get_tile_type_at(U[e].hex) = "Capital"))}
            human      == {e \in qualifying : U[e].faction = player}
            candidates == IF should_prefer_human_target(d) /\ human # {}
                          THEN human ELSE qualifying
        IN  IF candidates # {}
            THEN UNION {ai_attack(W, unit_entity, e) : e \in candidates}
            ELSE ai_movement(W, unit_entity, current, eliminated)

(***************************************************************************)
(* end_turn (turn.rs)                                                      *)
(***************************************************************************)
\* variant: every end_turn counts a turn
turn_number_each(next, turn) == turn + 1

turn_number_after(next, turn) == IF next = "Redosia" THEN turn + 1 ELSE turn

\* the TurnTransition outcomes: the world left, the resources set and the
\* pending spawns returned
end_turn(W, current, turn, eliminated, seed) ==
    LET W1   == [clear_selection(W) EXCEPT !.unit = reset_has_moved(W.unit)]
        next == skip_eliminated(next_faction(current), 0, eliminated)
    IN  {[world |-> [W1 EXCEPT !.unit = r.unit,
                               !.actions_remaining = ACTIONS_PER_TURN,
                               !.speech_used = FALSE,
                               !.turn_order = order,
                               !.current_unit_index = 0],
          current_faction |-> next,
          turn_number |-> turn_number_after(next, turn),
          rng_seed |-> r.rng_seed,
          pending_spawns |-> r.pending_spawns,
          events |-> r.events] :
         order \in build_turn_order(W1.unit, next),
         r \in reinforcement_system(W1.unit, W1.tile_faction, seed, next)}

(***************************************************************************)
(* The match as a state machine.  One frame of the game loop runs, in this *)
(* order: the pending spawns of the last end_turn are materialized,        *)
(* movement advances, the AI or the player acts (and the turn may end),    *)
(* tile ownership is resolved, victory is checked.                         *)
(***************************************************************************)
World ==
    [unit |-> unit, tile_faction |-> tile_faction, faction_morale |-> faction_morale,
     selected |-> selected, valid_move_tiles |-> valid_move_tiles,
     previous_selected_unit |-> previous_selected_unit,
     actions_remaining |-> actions_remaining, speech_used |-> speech_used,
     turn_order |-> turn_order, current_unit_index |-> current_unit_index,
     combat |-> NoCombat, merged |-> FALSE]

\* the world W written back to the tables and resources
Store(W) ==
    /\ unit' = W.unit
    /\ tile_faction' = W.tile_faction
    /\ faction_morale' = W.faction_morale
    /\ selected' = W.selected
    /\ valid_move_tiles' = W.valid_move_tiles
    /\ previous_selected_unit' = W.previous_selected_unit
    /\ actions_remaining' = W.actions_remaining
    /\ speech_used' = W.speech_used
    /\ turn_order' = W.turn_order
    /\ current_unit_index' = W.current_unit_index

\* what a call that returns nothing leaves in ret.result
NoReturn == [merged |-> FALSE]

\* the call made, the actions that remained when it was made, the combat it
\* resolved and what it returned
Ret(call, combat, result) ==
    [call |-> call, actions |-> actions_remaining, combat |-> combat, result |-> result]

\* the units the match starts with: INITIAL_SOLDIERS on every capital
initial_units ==
    [e \in 1..4 |-> Unit(faction_from_index(e - 1), INITIAL_SOLDIERS, 0,
                         get_capital_coord(faction_from_index(e - 1)))]

\* the seeds, difficulties and player factions a match is started with
InitSeeds == {ToU32(12345), <<65535, 65534>>}

InitPlayers == {"Greenland"}

Init ==
    /\ tile_faction = [c \in Coords |-> None]
    /\ unit = initial_units
    /\ next_entity = 5
    /\ selected = NoEntity
    /\ valid_move_tiles = {}
    /\ previous_selected_unit = NoEntity
    /\ current_faction = "Redosia"
    /\ actions_remaining = ACTIONS_PER_TURN
    /\ turn_number = 1
    /\ faction_eliminated = [f \in Faction |-> FALSE]
    /\ faction_morale = [f \in Faction |-> 0]
    /\ speech_used = FALSE
    /\ turn_order \in build_turn_order(initial_units, "Redosia")
    /\ current_unit_index = 0
    /\ rng_seed \in InitSeeds
    /\ difficulty \in Difficulty
    /\ player_faction \in InitPlayers
    /\ pending_spawns = <<>>
    /\ phase = "move"
    /\ ret = Ret("init", NoCombat, NoReturn)

\* the pending spawns, spawned in order with fresh entity handles
RECURSIVE materialize(_, _, _, _)
materialize(U, spawns, entity, morale) ==
    IF spawns = <<>> THEN U
    ELSE materialize(spawn_unit(U, entity, Head(spawns).coord, Head(spawns).faction,
                                Head(spawns).soldiers, morale),
                     Tail(spawns), entity + 1, morale)

MaterializeSpawns ==
    /\ phase = "move"
    /\ pending_spawns # <<>>
    /\ unit' = materialize(unit, pending_spawns, next_entity, faction_morale)
    /\ next_entity' = next_entity + Len(pending_spawns)
    /\ pending_spawns' = <<>>
    /\ ret' = Ret("spawn", NoCombat, NoReturn)
    /\ UNCHANGED <<tile_faction, selected, valid_move_tiles, previous_selected_unit,
                   current_faction, actions_remaining, turn_number, faction_eliminated,
                   faction_morale, speech_used, turn_order, current_unit_index,
                   rng_seed, difficulty, player_faction, phase>>

Movement ==
    /\ phase = "move"
    /\ pending_spawns = <<>>
    /\ \E delta \in 1..MaxDelta : unit' = movement_system(unit, delta)
    /\ phase' = "act"
    /\ ret' = Ret("movement", NoCombat, NoReturn)
    /\ UNCHANGED <<tile_faction, next_entity, selected, valid_move_tiles,
                   previous_selected_unit, current_faction, actions_remaining,
                   turn_number, faction_eliminated, faction_morale, speech_used,
                   turn_order, current_unit_index, rng_seed, difficulty,
                   player_faction, pending_spawns>>

Unturned == <<next_entity, current_faction, turn_number, faction_eliminated, rng_seed,
              difficulty, player_faction, pending_spawns>>

\* a frame of the player's turn with a click: input_system, valid_moves_system
Input ==
    /\ phase = "act"
    /\ current_faction = player_faction
    /\ phase' = "own"
    /\ \/ actions_remaining > ACTIONS_PER_TURN - MaxPlayerActions
       \/ actions_remaining < MaxPlayerActions
    /\ \E click \in {"left", "right"}, hovered_tile \in Coords :
         \E W1 \in input_system(World, click, hovered_tile, current_faction) :
            /\ Store(valid_moves_system(W1))
            /\ ret' = Ret("input", W1.combat, [merged |-> W1.merged])
    /\ UNCHANGED Unturned

Speech ==
    /\ phase = "act"
    /\ current_faction = player_faction
    /\ ~speech_used
    /\ phase' = "own"
    /\ Store(speech_system(World, TRUE, current_faction))
    /\ ret' = Ret("speech", NoCombat, NoReturn)
    /\ UNCHANGED Unturned

\* a frame in which the AI decides for one unit, or waits for movement
AiTurn ==
    /\ phase = "act"
    /\ current_faction # player_faction
    /\ ~ai_turn_done(World, player_faction, current_faction)
    /\ phase' = "own"
    /\ \E W1 \in ai_turn_system(World, player_faction, current_faction, difficulty,
                                rng_seed, turn_number, faction_eliminated) :
            /\ Store(W1)
            /\ ret' = Ret("ai", W1.combat, NoReturn)
    /\ UNCHANGED Unturned

\* a frame of the player's turn without input
Idle ==
    /\ phase = "act"
    /\ current_faction = player_faction
    /\ phase' = "own"
    /\ ret' = Ret("idle", NoCombat, NoReturn)
    /\ UNCHANGED <<tile_faction, unit, next_entity, selected, valid_move_tiles,
                   previous_selected_unit, current_faction, actions_remaining,
                   turn_number, faction_eliminated, faction_morale, speech_used,
                   turn_order, current_unit_index, rng_seed, difficulty,
                   player_faction, pending_spawns>>

\* what end_turn found when it was called
Before ==
    [current_faction |-> current_faction, turn_number |-> turn_number,
     faction_eliminated |-> faction_eliminated, speech_used |-> speech_used,
     selected |-> selected,
     has_moved |-> {e \in DOMAIN unit : unit[e].has_moved},
     unit |-> unit, tile_faction |-> tile_faction, rng_seed |-> rng_seed]

\* the turn ends when the player asks for it or ai_turn_system returns true,
\* and can_end_turn holds
EndTurn ==
    /\ phase = "act"
    /\ current_faction = player_faction
         \/ ai_turn_done(World, player_faction, current_faction)
    /\ can_end_turn(unit)
    /\ phase' = "own"
    /\ \E t \in end_turn(World, current_faction, turn_number, faction_eliminated, rng_seed) :
         /\ t.turn_number <= MaxTurn
         /\ next_entity + Len(t.pending_spawns) - 1 <= MaxEntities
         /\ Store(t.world)
         /\ current_faction' = t.current_faction
         /\ turn_number' = t.turn_number
         /\ rng_seed' = t.rng_seed
         /\ pending_spawns' = t.pending_spawns
         /\ ret' = Ret("end_turn", NoCombat,
                       [new_faction |-> t.current_faction, turn_number |-> t.turn_number,
                        pending_spawns |-> t.pending_spawns, events |-> t.events,
                        before |-> Before])
    /\ UNCHANGED <<next_entity, faction_eliminated, difficulty, player_faction>>

TileOwnership ==
    /\ phase = "own"
    /\ phase' = "victory"
    /\ \E o \in tile_ownership_system(unit, tile_faction, faction_morale) :
         /\ tile_faction' = o.tile_faction
         /\ faction_morale' \in Choices(Faction, o.morale_options)
         /\ ret' = Ret("tile_ownership", NoCombat,
                       [captures |-> o.captures, tile_faction |-> tile_faction,
                        faction_morale |-> faction_morale])
    /\ UNCHANGED <<unit, next_entity, selected, valid_move_tiles, previous_selected_unit,
                   current_faction, actions_remaining, turn_number, faction_eliminated,
                   speech_used, turn_order, current_unit_index, rng_seed, difficulty,
                   player_faction, pending_spawns>>

Victory ==
    /\ phase = "victory"
    /\ LET v == victory_system(unit, tile_faction, faction_eliminated)
       IN  /\ phase' = IF v.result = "Ongoing" THEN "move" ELSE "over"
           /\ unit' = v.unit
           /\ tile_faction' = v.tile_faction
           /\ faction_eliminated' = v.faction_eliminated
           /\ ret' = Ret("victory", NoCombat, [result |-> v.result, events |-> v.events])
    /\ UNCHANGED <<next_entity, selected, valid_move_tiles, previous_selected_unit,
                   current_faction, actions_remaining, turn_number, faction_morale,
                   speech_used, turn_order, current_unit_index, rng_seed, difficulty,
                   player_faction, pending_spawns>>

Next ==
    \/ MaterializeSpawns
    \/ Movement
    \/ Input
    \/ Speech
    \/ AiTurn
    \/ Idle
    \/ EndTurn
    \/ TileOwnership
    \/ Victory

Spec == Init /\ [][Next]_vars

(***************************************************************************)
(* A match in progress, in its last modelled round.  Violetnam and         *)
(* Bluegaria have lost their capitals (Bluegaria's to Violetnam, whose     *)
(* tiles were cleared when Redosia then took Violetnam's); Greenland, the  *)
(* player, holds its capital and the Port next to it with the unit it      *)
(* started with, Redosia holds its capital, Violetnam's capital and the    *)
(* tile its unit stands on.  The strengths and                             *)
(* morale of the two units are the ones earlier combats, reinforcements    *)
(* and speeches have left them with.                                       *)
(***************************************************************************)
\* soldiers and morale of Greenland's and of Redosia's unit, and the tile
\* Redosia's unit stands on
MatchPositions ==
    {<<10, 0, 10, 0, <<2, 2>>>>,      \* equal strength on Land
     <<8, 50, 10, 0, <<2, 2>>>>,      \* the stronger side is left with few soldiers
     <<5, 50, 10, -50, <<2, 2>>>>,    \* the stronger side has fewer soldiers
     <<10, -50, 5, 50, <<2, 2>>>>,
     <<1, 0, 10, 0, <<0, 0>>>>}       \* a depleted unit holding the Port

\* seeds a running match may have reached
MatchSeeds == {ToU32(12345), <<65535, 65534>>}

match_units(p) ==
    (1 :> Unit("Redosia", p[3], p[4], p[5])) @@ (4 :> Unit("Greenland", p[1], p[2], <<1, 2>>))

match_tiles(p) ==
    [c \in Coords |->
        IF c \in {<<0, 2>>, <<1, 2>>} THEN "Greenland"
        ELSE IF c \in {<<0, 0>>, <<3, 0>>, p[5]} THEN "Redosia"
        ELSE None]

MatchInit ==
    /\ \E p \in MatchPositions :
          /\ unit = match_units(p)
          /\ tile_faction = match_tiles(p)
    /\ next_entity = 5
    /\ selected = NoEntity
    /\ valid_move_tiles = {}
    /\ previous_selected_unit = NoEntity
    /\ \/ /\ current_faction = "Greenland"
          /\ actions_remaining \in {ACTIONS_PER_TURN, 1}
          /\ rng_seed = ToU32(12345)
          /\ difficulty = "Easy"
       \/ /\ current_faction = "Redosia"
          /\ actions_remaining = ACTIONS_PER_TURN
          /\ rng_seed \in MatchSeeds
          /\ difficulty \in Difficulty
    /\ turn_number = MaxTurn
    /\ faction_eliminated = [f \in Faction |-> f \in {"Violetnam", "Bluegaria"}]
    /\ faction_morale = [f \in Faction |-> 0]
    /\ speech_used = FALSE
    /\ turn_order \in build_turn_order(unit, current_faction)
    /\ current_unit_index = 0
    /\ player_faction = "Greenland"
    /\ pending_spawns = <<>>
    /\ phase = "move"
    /\ ret = Ret("init", NoCombat, NoReturn)

MatchSpec == MatchInit /\ [][Next]_vars

(***************************************************************************)
(* An endgame of three factions, at the start of Bluegaria's turn.         *)
(* Violetnam has lost its capital to Bluegaria.  Greenland, the player,    *)
(* has lost its units in attacks and still owns its capital and the two    *)
(* Cities, all empty.  Bluegaria's only unit stands on the Port next to    *)
(* Greenland's capital, and Redosia's capital is held by the 7 soldiers a  *)
(* defence has left of its garrison.                                       *)
(***************************************************************************)
endgame_units ==
    (1 :> Unit("Redosia", 7, 0, <<0, 0>>)) @@ (3 :> Unit("Bluegaria", 10, 0, <<1, 2>>))

endgame_tiles ==
    [c \in Coords |->
        IF c \in {<<0, 2>>, <<0, 1>>, <<3, 1>>} THEN "Greenland"
        ELSE IF c \in {<<3, 2>>, <<3, 0>>, <<1, 2>>} THEN "Bluegaria"
        ELSE IF c = <<0, 0>> THEN "Redosia"
        ELSE None]

EndgameInit ==
    /\ unit = endgame_units
    /\ tile_faction = endgame_tiles
    /\ next_entity = 4
    /\ selected = NoEntity
    /\ valid_move_tiles = {}
    /\ previous_selected_unit = NoEntity
    /\ current_faction = "Bluegaria"
    /\ actions_remaining = ACTIONS_PER_TURN
    /\ rng_seed = ToU32(12345)
    /\ difficulty \in Difficulty
    /\ turn_number = MaxTurn
    /\ faction_eliminated = [f \in Faction |-> f = "Violetnam"]
    /\ faction_morale = [f \in Faction |-> 0]
    /\ speech_used = FALSE
    /\ turn_order \in build_turn_order(unit, current_faction)
    /\ current_unit_index = 0
    /\ player_faction = "Greenland"
    /\ pending_spawns = <<>>
    /\ phase = "move"
    /\ ret = Ret("init", NoCombat, NoReturn)

EndgameSpec == EndgameInit /\ [][Next]_vars

(***************************************************************************)
(* The end of Bluegaria's turn late in a match: the next faction is        *)
(* Greenland, whose reinforcements end_turn then computes.  Violetnam is   *)
(* eliminated, Redosia, the player, holds its capital.  Greenland owns its *)
(* capital and the Port next to it, in some positions also the City, the   *)
(* second Port or Land; its garrison has the soldiers earlier turns left   *)
(* it with, and the seed is one the generator may have reached.            *)
(***************************************************************************)
\* soldiers of Greenland's unit on its capital (0: no such unit), soldiers
\* and tile of Greenland's second unit (0: no such unit), the tile of
\* Bluegaria's unit, the further tiles Greenland owns, and the seed
\* (its high and low 16 bits)
ReinforcementPositions ==
    {<<90, 0, <<1, 2>>, <<3, 2>>, {}, ToU32(12345)>>,
     <<85, 0, <<1, 2>>, <<2, 2>>, {<<0, 1>>}, ToU32(1)>>,
     <<99, 98, <<1, 2>>, <<3, 2>>, {}, ToU32(2)>>,
     <<1, 98, <<0, 1>>, <<3, 2>>, {<<0, 1>>}, <<32767, 65535>>>>,
     <<89, 1, <<2, 2>>, <<3, 2>>, {<<1, 0>>, <<2, 2>>}, <<32768, 0>>>>,
     <<10, 0, <<1, 2>>, <<0, 1>>, {<<0, 1>>}, <<65535, 65534>>>>,
     <<0, 97, <<1, 2>>, <<3, 2>>, {}, <<65535, 65535>>>>,
     <<0, 0, <<1, 2>>, <<3, 2>>, {}, ToU32(12345)>>}

reinforcement_units(p) ==
    (1 :> Unit("Redosia", 10, 0, <<0, 0>>)) @@ (3 :> Unit("Bluegaria", 10, 0, p[4]))
    @@ [e \in {x \in {2} : p[2] > 0} |-> Unit("Greenland", p[2], 0, p[3])]
    @@ [e \in {x \in {4} : p[1] > 0} |-> Unit("Greenland", p[1], 0, <<0, 2>>)]

reinforcement_tiles(p) ==
    [c \in Coords |->
        IF c \in {<<0, 2>>, <<1, 2>>} \cup p[5] THEN "Greenland"
        ELSE IF c = <<3, 2>> THEN "Bluegaria"
        ELSE IF c = <<0, 0>> THEN "Redosia"
        ELSE None]

ReinforcementInit ==
    /\ \E p \in ReinforcementPositions :
          /\ unit = reinforcement_units(p)
          /\ tile_faction = reinforcement_tiles(p)
          /\ rng_seed = p[6]
    /\ next_entity = 5
    /\ selected = NoEntity
    /\ valid_move_tiles = {}
    /\ previous_selected_unit = NoEntity
    /\ current_faction = "Bluegaria"
    /\ actions_remaining \in {0, 1}
    /\ difficulty \in Difficulty
    /\ turn_number = MaxTurn
    /\ faction_eliminated = [f \in Faction |-> f = "Violetnam"]
    /\ faction_morale = [f \in Faction |-> 0]
    /\ speech_used = FALSE
    /\ turn_order \in build_turn_order(unit, current_faction)
    /\ current_unit_index = 0
    /\ player_faction = "Redosia"
    /\ pending_spawns = <<>>
    /\ phase = "act"
    /\ ret = Ret("init", NoCombat, NoReturn)

\* the frames of the turns of Bluegaria and Greenland, neither the player's
ReinforcementNext ==
    \/ MaterializeSpawns
    \/ Movement
    \/ AiTurn
    \/ EndTurn
    \/ TileOwnership
    \/ Victory

ReinforcementSpec == ReinforcementInit /\ [][ReinforcementNext]_vars

\* where the frame loop stands
FramePosition == <<phase, pending_spawns>>

\* The frame loop goes on: it spawns the pending units, runs movement_system,
\* calls ai_turn_system for as long as it returns false, then runs
\* tile_ownership_system and victory_system, and starts the next frame
\* unless the match is decided.
FrameGoesOn ==
    \/ phase = "move" /\ pending_spawns # <<>> /\ pending_spawns' = <<>> /\ phase' = "move"
    \/ phase = "move" /\ pending_spawns = <<>> /\ phase' = "act" /\ UNCHANGED pending_spawns
    \/ /\ phase = "act"
       /\ current_faction # player_faction
       /\ ~ai_turn_done(World, player_faction, current_faction)
       /\ phase' = "own"
       /\ UNCHANGED pending_spawns
    \/ phase = "own" /\ phase' = "victory" /\ UNCHANGED pending_spawns
    \/ phase = "victory" /\ phase' \in {"move", "over"} /\ UNCHANGED pending_spawns

\* the frames of the turns of the AI, every frame run to its end and followed
\* by the next one
AiTurnSpec ==
    ReinforcementInit /\ [][ReinforcementNext]_vars /\ WF_FramePosition(FrameGoesOn)


(***************************************************************************)
(* Map generation (map.rs)                                                 *)
(*                                                                         *)
(* generate_map keeps its tiles in a std HashMap and the landmasses in     *)
(* HashSets, and it walks them with iter() and keys().  The order of such  *)
(* a walk is not fixed by the program: it follows the keys the hasher of   *)
(* the process was given.  The model makes the hasher an explicit value,   *)
(* a pair <<a, b>>, and walks the coordinates c in the order of            *)
(* (a * index(c) + b) mod (width * height), index being column + row *     *)
(* width; one hasher serves the whole call.  A walk of one map is the same *)
(* every time it is made, as with an unchanged key set in the code.        *)
(***************************************************************************)
MAP_WIDTH == 31

MAP_HEIGHT == 21

\* MapGenParams, with the capital coordinates of CAPITAL_POSITIONS; the
\* default is the map of the game
MapGenParams ==
    [map_width |-> MAP_WIDTH, map_height |-> MAP_HEIGHT,
     capital_coords |-> << <<2, 2>>, <<28, 2>>, <<28, 18>>, <<2, 18>> >>]

\* the keys of a hash table in the order its iterator yields them
HashOrder(hasher, keys, width, height) ==
    LET size  == width * height
        at(i) == LET k == (hasher[1] * (i - 1) + hasher[2]) % size
                 IN  <<k % width, k \div width>>
    IN  SelectSeq([i \in 1..size |-> at(i)], LAMBDA c : c \in keys)

\* `x.round() as i32`: to the nearest integer, halves away from zero
F32RoundToInt(a) ==
    IF a[1] = 0 \/ a[3] < -1 THEN 0
    ELSE IF a[3] >= 23 THEN a[1] * a[2] * 2^(a[3] - 23)
    ELSE LET sh == 23 - a[3]
             q  == a[2] \div 2^sh
             r  == a[2] % 2^sh
         IN  a[1] * (IF r >= 2^(sh - 1) THEN q + 1 ELSE q)

rng_next(state) ==
    wrapping_add(wrapping_mul(state, ToU32(1103515245)), ToU32(12345))

\* the value drawn; the generator is left in state rng_next(state)
rng_next_range(state, max) == U32Rem(rng_next(state), max)

\* A map from coordinates to tile types, enumerated once: the function merged
\* with itself is the function, held as the table of its values.
Table(f) == f @@ f

\* A loop of the code: while `more` holds of the state, `step` is applied to
\* it, `fuel` times at most.  The run is split in halves, the second half
\* starting from the state the first half ends in.
RECURSIVE Loop(_, _, _, _)
Loop(more(_), step(_), state, fuel) ==
    IF fuel = 0 \/ ~more(state) THEN state
    ELSE IF fuel = 1 THEN step(state)
    ELSE Loop(more, step, Loop(more, step, state, fuel \div 2), fuel - fuel \div 2)

\* the generator and the slice after the shuffle, as [rng, slice]; position
\* is index + 1 of the code's 0-based index
rng_shuffle(rng, slice) ==
    LET swap(st) ==
            LET swap_index == rng_next_range(st.rng, st.position) + 1
            IN  [rng      |-> rng_next(st.rng),
                 slice    |-> [st.slice EXCEPT
                                  ![st.position] = st.slice[swap_index],
                                  ![swap_index]  = st.slice[st.position]],
                 position |-> st.position - 1]
        shuffled == Loop(LAMBDA st : st.position >= 2, swap,
                         [rng |-> rng, slice |-> slice, position |-> Len(slice)],
                         Len(slice))
    IN  [rng |-> shuffled.rng, slice |-> shuffled.slice]

is_in_bounds(coord, width, height) ==
    coord[1] >= 0 /\ coord[1] < width /\ coord[2] >= 0 /\ coord[2] < height

\* hex.rs: the tiles at distance 1..range of the center, as a set
hex_tiles_in_range(center, range) ==
    LET c == hex_to_cube(center)
        hex_tiles_at_distance(distance) ==
            {hex_from_cube(c[1] + p[1], c[2] + p[2], c[3] - p[1] - p[2]) :
                p \in {q \in (-distance..distance) \X (-distance..distance) :
                          /\ q[2] >= Max(-distance, -q[1] - distance)
                          /\ q[2] <= Min(distance, -q[1] + distance)
                          /\ Abs(q[1]) + Abs(q[2]) + Abs(-q[1] - q[2]) = distance * 2}}
    IN  UNION {hex_tiles_at_distance(distance) : distance \in 1..range}

\* get_hex_neighbors of map.rs lists the same six tiles as hex_neighbors
count_land_neighbors(coord, tiles, width, height) ==
    Cardinality({i \in 1..6 :
        LET neighbor == hex_neighbors(coord)[i]
        IN  is_in_bounds(neighbor, width, height) /\ tiles[neighbor] = "Land"})

flood_fill_land(start, tiles, width, height) ==
    IF tiles[start] # "Land" THEN {}
    ELSE LET spread(st) ==
                 LET next == {n \in UNION {NeighborSet(c) : c \in st.queue} :
                                 /\ is_in_bounds(n, width, height)
                                 /\ n \notin st.visited
                                 /\ tiles[n] = "Land"}
                 IN  [queue |-> next, visited |-> st.visited \cup next]
         IN  Loop(LAMBDA st : st.queue # {}, spread,
                  [queue |-> {start}, visited |-> {start}],
                  width * height).visited

lerp(a, b, t) == F32Add(a, F32Mul(F32Sub(b, a), t))

get_line_between(from, to) ==
    LET distance == hex_distance(from, to)
        f        == hex_to_cube(from)
        g        == hex_to_cube(to)
        point(step) ==
            LET t == F32Div(F32FromInt(step), F32FromInt(distance))
                x == F32RoundToInt(lerp(F32FromInt(f[1]), F32FromInt(g[1]), t))
                y == F32RoundToInt(lerp(F32FromInt(f[2]), F32FromInt(g[2]), t))
                z == F32RoundToInt(lerp(F32FromInt(f[3]), F32FromInt(g[3]), t))
            IN  hex_from_cube(x, y, z)
    IN  IF distance = 0 THEN <<from>>
        ELSE [i \in 1..(distance + 1) |-> point(i - 1)]

\* The two loops keep the first pair, in the order of the two walks, that is
\* strictly closer than every pair before it: the first pair at the least
\* distance.  With an empty set no pair is visited and the path is empty.
find_path_between_landmasses(hasher, from_land, to_land, tiles, width, height) ==
    IF from_land = {} \/ to_land = {} THEN <<>>
    ELSE LET from_seq == HashOrder(hasher, from_land, width, height)
             to_seq   == HashOrder(hasher, to_land, width, height)
             least(S) == CHOOSE d \in S : \A e \in S : d <= e
             near     == [i \in DOMAIN from_seq |->
                             least({hex_distance(from_seq[i], t) : t \in to_land})]
             best_distance == least({near[i] : i \in DOMAIN near})
             first_from == least({i \in DOMAIN near : near[i] = best_distance})
             first_to   == least({j \in DOMAIN to_seq :
                               hex_distance(from_seq[first_from], to_seq[j])
                                   = best_distance})
             best_path  == get_line_between(from_seq[first_from], to_seq[first_to])
         IN  SelectSeq(best_path,
                       LAMBDA c : is_in_bounds(c, width, height) /\ tiles[c] = "Sea")

is_adjacent_to_sea(coord, tiles, width, height) ==
    \E neighbor \in NeighborSet(coord) :
        ~is_in_bounds(neighbor, width, height) \/ tiles[neighbor] = "Sea"

is_passable_land(tile_type) == tile_type \in {"Land", "Forest"}

\* The generated map [tiles, features] for one seed under one hasher.  The
\* steps of the code follow each other as operators on [tiles, rng], the map
\* and the generator a step leaves behind.
generate_map(params, hasher, seed) ==
    LET width          == params.map_width
        height         == params.map_height
        capital_coords == params.capital_coords
        capitals       == {capital_coords[i] : i \in DOMAIN capital_coords}
        coords         == (0..(width - 1)) \X (0..(height - 1))
        \* tiles.iter() and tiles.keys(): every coordinate is a key from the
        \* first loop on, so every walk of `tiles` has this order
        walk           == HashOrder(hasher, coords, width, height)
        least(S)       == CHOOSE d \in S : \A e \in S : d <= e
        capital_area   ==
            {c \in capitals \cup UNION {hex_tiles_in_range(cap, 2) : cap \in capitals} :
                is_in_bounds(c, width, height)}
        \* lines 256-271
        start ==
            [tiles |-> Table([c \in coords |->
                                 IF c \in capital_area THEN "Land" ELSE "Sea"]),
             rng   |-> seed]
        \* lines 284-293: one shuffled sea hex
        grow(st) ==
            LET coord == st.sea_hexes[st.i]
                land_neighbors ==
                    count_land_neighbors(coord, st.tiles, width, height)
                converts == rng_next_range(st.rng, 100) < land_neighbors * 25
            IN  [tiles     |-> IF land_neighbors >= 1 /\ converts
                               THEN [st.tiles EXCEPT ![coord] = "Land"]
                               ELSE st.tiles,
                 rng       |-> IF land_neighbors >= 1 THEN rng_next(st.rng)
                               ELSE st.rng,
                 sea_hexes |-> st.sea_hexes,
                 i         |-> st.i + 1]
        \* lines 282-293: the shuffled sea hexes in turn
        grow_each(tiles, shuffled) ==
            Loop(LAMBDA g : g.i <= Len(g.sea_hexes), grow,
                 [tiles |-> tiles, rng |-> shuffled.rng,
                  sea_hexes |-> shuffled.slice, i |-> 1],
                 Len(shuffled.slice))
        rounds_left(st, left) == [tiles |-> st.tiles, rng |-> st.rng, left |-> left]
        \* lines 273-294: one growth round, `left` rounds being still to run
        round(st) ==
            rounds_left(
                grow_each(st.tiles,
                    rng_shuffle(st.rng,
                        SelectSeq(walk, LAMBDA c : st.tiles[c] = "Sea"))),
                st.left - 1)
        grown(st) == Loop(LAMBDA r : r.left > 0, round, rounds_left(st, 8), 8)
        \* lines 302-318: one land hex
        carve(st) ==
            LET coord == st.land_hexes[st.i]
                min_capital_dist ==
                    least({hex_distance(coord, cap) : cap \in capitals})
                rolls == /\ min_capital_dist > 5
                         /\ count_land_neighbors(coord, st.tiles, width, height) <= 1
            IN  [tiles      |-> IF rolls /\ rng_next_range(st.rng, 100) < 15
                                THEN [st.tiles EXCEPT ![coord] = "Sea"]
                                ELSE st.tiles,
                 rng        |-> IF rolls THEN rng_next(st.rng) ELSE st.rng,
                 land_hexes |-> st.land_hexes,
                 i          |-> st.i + 1]
        carve_each(st, land_hexes) ==
            Loop(LAMBDA h : h.i <= Len(h.land_hexes), carve,
                 [tiles |-> st.tiles, rng |-> st.rng,
                  land_hexes |-> land_hexes, i |-> 1],
                 Len(land_hexes))
        \* lines 296-318
        carved(st) ==
            carve_each(st, SelectSeq(walk, LAMBDA c : st.tiles[c] = "Land"))
        \* lines 320-336
        bordered(st) ==
            [tiles |-> Table([c \in coords |->
                                 IF c \in capital_area THEN "Land"
                                 ELSE IF \/ c[1] = 0 \/ c[1] = width - 1
                                         \/ c[2] = 0 \/ c[2] = height - 1 THEN "Sea"
                                 ELSE st.tiles[c]]),
             rng   |-> st.rng]
        \* lines 349-358: the bridge tiles and the Sea tiles around them
        widened(tiles, bridge) ==
            bridge \cup {n \in UNION {NeighborSet(c) : c \in bridge} :
                            is_in_bounds(n, width, height) /\ tiles[n] = "Sea"}
        filled(tiles, land) ==
            Table([c \in coords |-> IF c \in land THEN "Land" ELSE tiles[c]])
        \* lines 341-362, from the k-th capital on
        RECURSIVE connect(_, _, _)
        bridged(tiles, connected_land, capital_land, land, k) ==
            connect(filled(tiles, land), connected_land \cup land \cup capital_land,
                    k + 1)
        spanned(tiles, connected_land, capital_land, bridge, k) ==
            bridged(tiles, connected_land, capital_land,
                    widened(tiles, {bridge[i] : i \in DOMAIN bridge}), k)
        reached(tiles, connected_land, capital_land, k) ==
            spanned(tiles, connected_land, capital_land,
                    find_path_between_landmasses(hasher, connected_land,
                        capital_land, tiles, width, height),
                    k)
        connect(tiles, connected_land, k) ==
            IF k > Len(capital_coords) THEN tiles
            ELSE IF capital_coords[k] \in connected_land
                 THEN connect(tiles, connected_land, k + 1)
            ELSE reached(tiles, connected_land,
                         flood_fill_land(capital_coords[k], tiles, width, height), k)
        \* lines 338-362
        joined(st) ==
            [tiles |-> connect(st.tiles,
                           flood_fill_land(capital_coords[1], st.tiles, width, height),
                           2),
             rng   |-> st.rng]
        \* lines 364-377: one coordinate
        tidy(st) ==
            LET coord == walk[st.i]
                land_neighbors ==
                    count_land_neighbors(coord, st.tiles, width, height)
            IN  [tiles |-> IF st.tiles[coord] = "Land" /\ land_neighbors = 0
                           THEN [st.tiles EXCEPT ![coord] = "Sea"]
                           ELSE IF st.tiles[coord] = "Sea" /\ 6 - land_neighbors = 0
                           THEN [st.tiles EXCEPT ![coord] = "Land"]
                           ELSE st.tiles,
                 i     |-> st.i + 1]
        tidied(st) ==
            [tiles |-> Loop(LAMBDA t : t.i <= Len(walk), tidy,
                            [tiles |-> st.tiles, i |-> 1], Len(walk)).tiles,
             rng   |-> st.rng]
        \* lines 390-395: one land tile
        plant(st) ==
            [tiles      |-> IF rng_next_range(st.rng, 100) < 20
                            THEN [st.tiles EXCEPT ![st.land_tiles[st.i]] = "Forest"]
                            ELSE st.tiles,
             rng        |-> rng_next(st.rng),
             land_tiles |-> st.land_tiles,
             i          |-> st.i + 1]
        plant_each(st, land_tiles) ==
            Loop(LAMBDA p : p.i <= Len(p.land_tiles), plant,
                 [tiles |-> st.tiles, rng |-> st.rng,
                  land_tiles |-> land_tiles, i |-> 1],
                 Len(land_tiles))
        \* lines 379-395
        planted(st) ==
            plant_each(st, SelectSeq(walk, LAMBDA c :
                               /\ st.tiles[c] = "Land"
                               /\ \A cap \in capitals : hex_distance(c, cap) > 2))
        \* lines 421-433 and 450-462: candidates taken in order up to the target
        place(candidates, target) ==
            Loop(LAMBDA st : st.i <= Len(candidates)
                                 /\ Cardinality(st.placed) < target,
                 LAMBDA st :
                     [placed |-> IF \A p \in st.placed :
                                        hex_distance(candidates[st.i], p) > 2
                                 THEN st.placed \cup {candidates[st.i]}
                                 ELSE st.placed,
                      i      |-> st.i + 1],
                 [placed |-> {}, i |-> 1],
                 Len(candidates)).placed
        \* lines 397-403, 435-437 and 464-466
        featured(tiles, city_coords, port_coords) ==
            [tiles    |-> tiles,
             features |-> [c \in capitals \cup city_coords \cup port_coords |->
                              IF c \in capitals
                              THEN <<"Capital",
                                     faction_from_index(
                                         (CHOOSE i \in DOMAIN capital_coords :
                                              capital_coords[i] = c) - 1)>>
                              ELSE IF c \in city_coords THEN <<"City">>
                              ELSE <<"Port">>]]
        \* lines 439-462
        ports(tiles, city_coords, target_ports, coastal_hexes) ==
            featured(tiles, city_coords, place(coastal_hexes.slice, target_ports))
        coast(tiles, city_coords, rng) ==
            ports(tiles, city_coords, 4 + rng_next_range(rng, 3),
                  rng_shuffle(rng_next(rng),
                      SelectSeq(walk, LAMBDA c :
                          /\ is_passable_land(tiles[c])
                          /\ c \notin capitals \cup city_coords
                          /\ is_adjacent_to_sea(c, tiles, width, height))))
        \* lines 405-433
        cities(tiles, target_cities, candidate_hexes) ==
            coast(tiles, place(candidate_hexes.slice, target_cities),
                  candidate_hexes.rng)
        inland(st) ==
            cities(st.tiles, 8 + rng_next_range(st.rng, 5),
                   rng_shuffle(rng_next(st.rng),
                       SelectSeq(walk, LAMBDA c :
                           /\ is_passable_land(st.tiles[c])
                           /\ c \notin capitals
                           /\ \A cap \in capitals : hex_distance(c, cap) > 1
                           /\ ~is_adjacent_to_sea(c, st.tiles, width, height))))
    IN  inland(planted(tidied(joined(bordered(carved(grown(start)))))))

(***************************************************************************)
(* Calls of single functions.  The functions of hex.rs, valid_moves.rs and *)
(* map.rs read their arguments only; a call is an input drawn from the     *)
(* sets below and a value the function may return for it.                  *)
(***************************************************************************)
\* the hex functions are called with columns and rows in -HexRange..HexRange
HexRange == 3

\* the maps searched have PatchSize columns and PatchSize rows, or are the
\* board of the match
PatchSize == 5

\* a map of Land with Sea and Port tiles where stated
TileMap(sea, ports) ==
    [c \in (0 .. PatchSize - 1) \X (0 .. PatchSize - 1) |->
        IF c \in sea THEN "Sea" ELSE IF c \in ports THEN "Port" ELSE "Land"]

\* the arguments of the calls.  The maps searched are the board of the match;
\* open land; two landmasses either side of a strait, a Port on either shore
\* and a third further off; a bay with land around it and a Port on either
\* side; Ports with no Sea beside them.  The units on a map searched are the
\* unit asked about, another unit on any passable tile (its own included),
\* and possibly a third on a Port.  A combat or a move is asked of two units
\* side by side, of 1 to 3 soldiers each, handle 3 being of no unit.
\* <<-1, 0>> is a coordinate at which no map has a tile.  A map is generated
\* for the seeds 0 and 1.
\* reinforcement_system is called for Greenland late in a match: it owns
\* every land tile but Redosia's capital, or all of those but one, and has
\* one unit somewhere on them.
FunctionInputs ==
    LET HexCoords == (-HexRange .. HexRange) \X (-HexRange .. HexRange)
        PathMaps ==
            {Board,
             TileMap({}, {}),
             TileMap({2} \X (0 .. PatchSize - 1), {<<1, 2>>, <<3, 2>>, <<4, 4>>}),
             TileMap({<<2, 1>>, <<2, 2>>, <<2, 3>>}, {<<1, 2>>, <<3, 2>>}),
             TileMap({}, {<<0, 0>>, <<4, 4>>})}
        Passable(tiles) == {c \in DOMAIN tiles : tiles[c] # "Sea"}
        Ports(tiles)    == {c \in DOMAIN tiles : tiles[c] = "Port"}
        UnitsOn(tiles) ==
            {(1 :> Unit("Redosia", 1, 0, h)) @@ (2 :> Unit("Greenland", 1, 0, o)) :
                h \in Passable(tiles), o \in Passable(tiles)}
            \cup {(1 :> Unit("Redosia", 1, 0, h)) @@ (2 :> Unit("Greenland", 1, 0, o))
                      @@ (3 :> Unit("Redosia", 1, 0, q)) :
                      h \in Passable(tiles), o \in Passable(tiles), q \in Ports(tiles)}
        DuelUnits ==
            {(1 :> Unit("Redosia", a, 0, <<0, 0>>))
                 @@ (2 :> Unit("Greenland", d, 0, <<0, 1>>)) : a \in 1 .. 3, d \in 1 .. 3}
        ConqueredTiles(left) ==
            [c \in Coords |-> IF c = <<0, 0>> THEN "Redosia"
                              ELSE IF Board[c] = "Sea" \/ c \in left THEN None
                              ELSE "Greenland"]
        GarrisonUnits ==
            {(1 :> Unit("Redosia", 10, 0, <<0, 0>>)) @@ (2 :> Unit("Greenland", 10, 0, h)) :
                h \in Passable(Board) \ {<<0, 0>>}}
    IN  [call : {"hex_to_cube", "hex_neighbors"}, coord : HexCoords]
        \cup {[call |-> "hex_from_cube", x |-> x, y |-> -x - z, z |-> z] :
                 x \in -HexRange .. HexRange, z \in -HexRange .. HexRange}
        \cup [call : {"hex_distance"}, from : HexCoords, to : HexCoords]
        \cup UNION {[call : {"find_path"}, tiles : {tiles},
                     from : DOMAIN tiles \cup {<<-1, 0>>},
                     to   : DOMAIN tiles \cup {<<-1, 0>>}] : tiles \in PathMaps}
        \cup UNION {[call : {"calculate_valid_moves"}, tiles : {tiles},
                     unit : UnitsOn(tiles), unit_entity : {1}] : tiles \in PathMaps}
        \cup [call : {"resolve_combat"}, unit : DuelUnits,
              tile_faction : {[c \in Coords |-> None]},
              faction_morale : {[f \in Faction |-> 0]},
              attacker_entity : 1 .. 3, defender_entity : 1 .. 3]
        \cup UNION {[call : {"move_unit_to"}, tiles : {tiles}, unit : DuelUnits,
                     unit_entity : 1 .. 3, destination : DOMAIN tiles \cup {<<-1, 0>>}] :
                    tiles \in PathMaps}
        \cup [call : {"generate_map"}, seed : {ToU32(0), ToU32(1)}]
        \cup [call : {"reinforcement_system"}, unit : GarrisonUnits,
              tile_faction : {ConqueredTiles(left) : left \in {{}, {<<2, 0>>}}},
              seed : {ToU32(12345)}, current : {"Greenland"}]

\* the values the call may return; the empty path stands for the result None
\* of find_path, whose paths have one coordinate at least.  generate_map runs
\* in a process with any one of three hashers.
Apply(input) ==
    CASE input.call = "hex_to_cube"   -> {hex_to_cube(input.coord)}
      [] input.call = "hex_from_cube" -> {hex_from_cube(input.x, input.y, input.z)}
      [] input.call = "hex_neighbors" -> {hex_neighbors(input.coord)}
      [] input.call = "hex_distance"  -> {hex_distance(input.from, input.to)}
      [] input.call = "find_path" ->
             IF find_path(input.tiles, input.from, input.to) = {} THEN {<<>>}
             ELSE find_path(input.tiles, input.from, input.to)
      [] input.call = "resolve_combat" ->
             resolve_combat(input.unit, input.tile_faction, input.faction_morale,
                            input.attacker_entity, input.defender_entity)
      [] input.call = "move_unit_to" ->
             move_unit_to(input.tiles, input.unit, input.unit_entity, input.destination)
      [] input.call = "generate_map" ->
             {generate_map(MapGenParams, hasher, input.seed) :
                 hasher \in {<<1, 0>>, <<32, 7>>, <<11, 11>>}}
      [] input.call = "reinforcement_system" ->
             reinforcement_system(input.unit, input.tile_faction, input.seed, input.current)
      [] input.call = "calculate_valid_moves" ->
             {calculate_valid_moves(input.tiles, input.unit, input.unit_entity,
                                    input.unit[input.unit_entity].hex,
                                    input.unit[input.unit_entity].movement_range)}

FunctionInit ==
    /\ tile_faction = [c \in Coords |-> None]
    /\ unit = initial_units
    /\ next_entity = 5
    /\ selected = NoEntity
    /\ valid_move_tiles = {}
    /\ previous_selected_unit = NoEntity
    /\ current_faction = "Redosia"
    /\ actions_remaining = ACTIONS_PER_TURN
    /\ turn_number = 1
    /\ faction_eliminated = [f \in Faction |-> FALSE]
    /\ faction_morale = [f \in Faction |-> 0]
    /\ speech_used = FALSE
    /\ turn_order = <<>>
    /\ current_unit_index = 0
    /\ rng_seed = ToU32(12345)
    /\ difficulty = "Normal"
    /\ player_faction = "Redosia"
    /\ pending_spawns = <<>>
    /\ phase = "call"
    /\ \E input \in FunctionInputs : ret = Ret("input", NoCombat, input)

Call ==
    /\ ret.call = "input"
    /\ \E output \in Apply(ret.result) :
          ret' = Ret(ret.result.call, NoCombat, [input |-> ret.result, output |-> output])
    /\ UNCHANGED <<tile_faction, unit, next_entity, selected, valid_move_tiles,
                   previous_selected_unit, current_faction, actions_remaining,
                   turn_number, faction_eliminated, faction_morale, speech_used,
                   turn_order, current_unit_index, rng_seed, difficulty,
                   player_faction, pending_spawns, phase>>

FunctionSpec == FunctionInit /\ [][Call]_vars


(***************************************************************************)
(* Units on their way.  movement_system runs in every frame; the units     *)
(* were given their Movement by move_unit_to, over open land or across a   *)
(* strait from Port to Port, and a frame advances the progress by up to    *)
(* MaxStride steps of 1/ProgressUnit, enough to complete several segments. *)
(***************************************************************************)
MaxStride == 5

MovementInit ==
    /\ tile_faction = [c \in Coords |-> None]
    /\ \E tiles \in {TileMap({}, {}),
                      TileMap({2} \X (0 .. PatchSize - 1), {<<1, 2>>, <<3, 2>>})} :
       \E start \in {<<0, 0>>, <<1, 2>>}, first \in DOMAIN tiles,
          second \in {<<4, 4>>, <<4, 1>>, <<3, 3>>} :
       \E U1 \in move_unit_to(tiles, (1 :> Unit("Redosia", 1, 0, start))
                                         @@ (2 :> Unit("Greenland", 1, 0, <<4, 4>>)),
                               1, first) :
          unit \in move_unit_to(tiles, U1, 2, second)
    /\ next_entity = 3
    /\ selected = NoEntity
    /\ valid_move_tiles = {}
    /\ previous_selected_unit = NoEntity
    /\ current_faction = "Redosia"
    /\ actions_remaining = ACTIONS_PER_TURN
    /\ turn_number = 1
    /\ faction_eliminated = [f \in Faction |-> FALSE]
    /\ faction_morale = [f \in Faction |-> 0]
    /\ speech_used = FALSE
    /\ turn_order = <<>>
    /\ current_unit_index = 0
    /\ rng_seed = ToU32(12345)
    /\ difficulty = "Normal"
    /\ player_faction = "Redosia"
    /\ pending_spawns = <<>>
    /\ phase = "move"
    /\ ret = Ret("init", NoCombat, [delta |-> 0, before |-> unit])

MovementStep ==
    /\ \E delta \in 1 .. MaxStride :
          /\ unit' = movement_system(unit, delta)
          /\ ret' = Ret("movement_system", NoCombat, [delta |-> delta, before |-> unit])
    /\ UNCHANGED <<tile_faction, next_entity, selected, valid_move_tiles,
                   previous_selected_unit, current_faction, actions_remaining,
                   turn_number, faction_eliminated, faction_morale, speech_used,
                   turn_order, current_unit_index, rng_seed, difficulty,
                   player_faction, pending_spawns, phase>>

\* movement_system is called in every frame
MovementSpec == MovementInit /\ [][MovementStep]_vars /\ WF_vars(MovementStep)


(***************************************************************************)
(* Properties.  ret holds the last call, so a property of a call is stated *)
(* of the state the call leaves: ret.actions and ret.result.before are     *)
(* what the call found, the variables what it left.                        *)
(***************************************************************************)
\* the fixed cycle of the factions, and the faction k places after f in it
FactionCycle == <<"Redosia", "Violetnam", "Bluegaria", "Greenland">>

CycleAfter(f, k) ==
    LET i == CHOOSE n \in 1..4 : FactionCycle[n] = f
    IN  FactionCycle[((i - 1 + k) % 4) + 1]

\* the first faction after f in the cycle that is not eliminated
FirstAlive(f, eliminated) ==
    LET k == CHOOSE n \in 1..4 :
                 /\ ~eliminated[CycleAfter(f, n)]
                 /\ \A j \in 1..(n - 1) : eliminated[CycleAfter(f, j)]
    IN  CycleAfter(f, k)

EndTurnCalled == ret.call = "end_turn"

\* C1: end_turn sets current_faction to the first faction after the old
\* current faction in the cycle Redosia, Violetnam, Bluegaria, Greenland that
\* is not eliminated, whenever some faction is not eliminated.
C1_NextFaction ==
    (EndTurnCalled /\ \E f \in Faction : ~ret.result.before.faction_eliminated[f])
    => /\ current_faction = FirstAlive(ret.result.before.current_faction,
                                       ret.result.before.faction_eliminated)
       /\ ret.result.new_faction = current_faction

\* C1, for every current faction and every combination of elimination flags
\* with a faction left: the faction-skip loop of end_turn ends at that faction
C1_EveryCombination ==
    /\ C1_NextFaction
    /\ \A f \in Faction, eliminated \in [Faction -> BOOLEAN] :
          (\E g \in Faction : ~eliminated[g])
          => skip_eliminated(next_faction(f), 0, eliminated) = FirstAlive(f, eliminated)

\* an end_turn that passed over an eliminated faction
C1_Witness ==
    /\ EndTurnCalled
    /\ ret.result.before.faction_eliminated[CycleAfter(ret.result.before.current_faction, 1)]
    /\ current_faction = CycleAfter(ret.result.before.current_faction, 2)

\* C9: end_turn adds one to turn_number when the new current faction is
\* Redosia and leaves it unchanged otherwise; no step lowers turn_number.
C9_TurnNumber ==
    [][/\ turn_number' >= turn_number
       /\ ret'.call = "end_turn" =>
              turn_number' = IF current_faction' = "Redosia"
                             THEN turn_number + 1 ELSE turn_number]_vars

\* an end_turn into Redosia that raised the turn number
C9_Witness ==
    /\ EndTurnCalled
    /\ current_faction = "Redosia"
    /\ turn_number = ret.result.before.turn_number + 1
    /\ ret.result.turn_number = turn_number

\* C10: after end_turn five actions remain, the speech is unused, nothing is
\* selected and no unit of any faction is marked has_moved.
C10_TurnReset ==
    EndTurnCalled
    => /\ actions_remaining = 5
       /\ ~speech_used
       /\ selected = NoEntity
       /\ \A e \in DOMAIN unit : ~unit[e].has_moved

\* an end_turn called with actions spent, the speech used, a unit selected
\* and a unit marked has_moved
C10_Witness ==
    /\ EndTurnCalled
    /\ ret.actions < 5
    /\ ret.result.before.speech_used
    /\ ret.result.before.selected # NoEntity
    /\ ret.result.before.has_moved \cap DOMAIN unit # {}

\* C7: victory_system returns Victory(f) exactly when f is the only faction
\* not eliminated after its elimination pass, and Ongoing otherwise.
C7_VictoryResult ==
    ret.call = "victory"
    => LET alive == {f \in Faction : ~faction_eliminated[f]}
       IN  IF Cardinality(alive) = 1
           THEN ret.result.result \in alive
           ELSE ret.result.result = "Ongoing"

\* a victory_system call that returned Victory
C7_Witness ==
    /\ ret.call = "victory"
    /\ ret.result.result \in Faction
    /\ Cardinality({f \in Faction : faction_eliminated[f]}) = 3

CombatResolved == ret.combat # NoCombat

\* the strengths resolve_combat compared in the combat ret reports
AttackerStrength == combat_strength(ret.combat.attacker_unit)

DefenderStrength ==
    F32Mul(combat_strength(ret.combat.defender_unit),
           get_defense_bonus_at(ret.combat.defender_unit.hex))

Alive(entity) == entity \in DOMAIN unit

\* what is left of n soldiers after floor(0.7 x m) and floor(0.5 x m) casualties
AfterSeventy(n, m) == n - ((7 * m) \div 10)

AfterHalf(n, m) == n - (m \div 2)

\* C2 as claimed: at equal strength the attacker wins, the defender is
\* destroyed and the attacker loses floor(0.7 x defender.soldiers).
C2_TieToAttacker ==
    (CombatResolved /\ AttackerStrength = DefenderStrength)
    => LET a == ret.combat.attacker_unit
           d == ret.combat.defender_unit
       IN  /\ ~Alive(ret.combat.defender)
           /\ AfterSeventy(a.soldiers, d.soldiers) > 0
              => /\ Alive(ret.combat.attacker)
                 /\ unit[ret.combat.attacker].soldiers = AfterSeventy(a.soldiers, d.soldiers)

\* C2 as amended: when the two strengths resolve_combat computes are equal
\* the defender wins: the attacker is destroyed and the defender loses
\* floor(0.5 x attacker.soldiers), surviving exactly when soldiers remain.
C2_TieToDefender ==
    (CombatResolved /\ AttackerStrength = DefenderStrength)
    => LET a == ret.combat.attacker_unit
           d == ret.combat.defender_unit
       IN  /\ ~Alive(ret.combat.attacker)
           /\ ~ret.combat.result.attacker_survived
           /\ Alive(ret.combat.defender) <=> AfterHalf(d.soldiers, a.soldiers) > 0
           /\ Alive(ret.combat.defender)
              => unit[ret.combat.defender].soldiers = AfterHalf(d.soldiers, a.soldiers)

\* 10 soldiers of morale 0 attacked 10 soldiers of morale 0 on Land, and the
\* defender is left with 5
C2_Witness ==
    /\ CombatResolved
    /\ AttackerStrength = DefenderStrength
    /\ ret.combat.attacker_unit.soldiers = 10 /\ ret.combat.attacker_unit.morale = 0
    /\ ret.combat.defender_unit.soldiers = 10 /\ ret.combat.defender_unit.morale = 0
    /\ Board[ret.combat.defender_unit.hex] = "Land"
    /\ ~Alive(ret.combat.attacker)
    /\ unit[ret.combat.defender].soldiers = 5

\* C3: every living unit has between 1 and 99 soldiers.
C3_SoldiersInRange == \A e \in DOMAIN unit : unit[e].soldiers \in 1..99

\* C4: resolve_combat destroys the loser; the winner loses floor(0.7 x
\* defender.soldiers) when it attacked and floor(0.5 x attacker.soldiers)
\* when it defended, and is destroyed exactly when nothing remains; the
\* survival flags returned say which of the two units are left.
C4_Casualties ==
    CombatResolved
    => LET a == ret.combat.attacker_unit
           d == ret.combat.defender_unit
           r == ret.combat.result
           winner == IF F32Gt(AttackerStrength, DefenderStrength)
                     THEN ret.combat.attacker ELSE ret.combat.defender
           loser  == IF winner = ret.combat.attacker
                     THEN ret.combat.defender ELSE ret.combat.attacker
           left   == IF winner = ret.combat.attacker
                     THEN AfterSeventy(a.soldiers, d.soldiers)
                     ELSE AfterHalf(d.soldiers, a.soldiers)
       IN  /\ ~Alive(loser)
           /\ Alive(winner) <=> left > 0
           /\ Alive(winner) => unit[winner].soldiers = left
           /\ r.attacker_survived <=> Alive(ret.combat.attacker)
           /\ r.defender_survived <=> Alive(ret.combat.defender)
           /\ r.attacker_faction = a.faction /\ r.defender_faction = d.faction

\* the attacker was the stronger and neither unit is left
C4_Witness ==
    /\ CombatResolved
    /\ F32Gt(AttackerStrength, DefenderStrength)
    /\ ~Alive(ret.combat.attacker) /\ ~Alive(ret.combat.defender)
    /\ ~ret.combat.result.attacker_survived /\ ~ret.combat.result.defender_survived

\* C5: an attacker that wins and survives is marked has_moved, is moving
\* onto the defender's former hex, and its faction owns the tile there when
\* resolve_combat returns; when the attacker does not survive the owner of
\* that tile is the one it was.
C5_Capture ==
    CombatResolved
    => LET a   == ret.combat.attacker_unit
           hex == ret.combat.defender_unit.hex
       IN  IF ret.combat.result.attacker_survived
           THEN /\ Alive(ret.combat.attacker)
                /\ unit[ret.combat.attacker].has_moved
                /\ has_movement(unit[ret.combat.attacker])
                /\ unit[ret.combat.attacker].path[Len(unit[ret.combat.attacker].path)] = hex
                /\ tile_faction[hex] = a.faction
           ELSE tile_faction[hex] = ret.combat.owner

C8_SomeFactionLeft == \E f \in Faction : ~faction_eliminated[f]

\* C11: can_end_turn is true exactly when no unit has a Movement in flight,
\* and no turn is ended while a unit is still moving.
C11_CanEndTurn ==
    /\ can_end_turn(unit) <=> ~\E e \in DOMAIN unit : unit[e].path # <<>>
    /\ EndTurnCalled
       => \A e \in DOMAIN ret.result.before.unit : ret.result.before.unit[e].path = <<>>

\* the player's turn with a unit still moving: the turn cannot end
C11_Witness ==
    /\ phase = "act"
    /\ current_faction = player_faction
    /\ \E e \in DOMAIN unit : unit[e].path # <<>>
    /\ ~can_end_turn(unit)

(***************************************************************************)
(* Reinforcement at end_turn                                               *)
(***************************************************************************)
\* the units of the new current faction that stood, alone on their tile, on
\* a City or Capital owned by that faction when end_turn was called
Garrisons ==
    LET B == ret.result.before
    IN  {e \in DOMAIN B.unit :
            /\ B.unit[e].faction = ret.result.new_faction
            /\ B.unit[e].hex \in Coords
            /\ Board[B.unit[e].hex] \in {"City", "Capital"}
            /\ B.tile_faction[B.unit[e].hex] = ret.result.new_faction
            /\ \A o \in DOMAIN B.unit : B.unit[o].hex = B.unit[e].hex => o = e}

\* the Port and territory bonuses the same end_turn gave to unit e
OtherBonuses(e) ==
    {ev \in ret.result.events :
        ev.entity = e /\ ev.location_name \in {"port", "territory"}}

\* the soldiers a unit of s soldiers may have after the bonuses, each capped
RECURSIVE WithBonuses(_, _)
WithBonuses(s, bonuses) ==
    IF bonuses = {} THEN {s}
    ELSE UNION {WithBonuses(Min(99, s + b.soldiers), bonuses \ {b}) : b \in bonuses}

\* C12: at end_turn the garrison of a City or Capital owned by the new current
\* faction has its soldiers set to min(99, soldiers + 10) by the City/Capital
\* grant (the Port and territory bonuses of the same call come on top).
C12_CityGrant ==
    EndTurnCalled =>
        \A e \in Garrisons :
            /\ e \in DOMAIN unit
            /\ unit[e].soldiers \in
                  WithBonuses(Min(99, ret.result.before.unit[e].soldiers + 10),
                              OtherBonuses(e))

\* a garrison of 90 that end_turn left with 99
C12_Witness ==
    /\ EndTurnCalled
    /\ \E e \in Garrisons :
          /\ ret.result.before.unit[e].soldiers = 90
          /\ unit[e].soldiers = 99

\* the units of the new current faction within distance 3 of coord when
\* end_turn was called
UnitsNear(coord) ==
    LET B == ret.result.before
    IN  {e \in DOMAIN B.unit :
            /\ B.unit[e].faction = ret.result.new_faction
            /\ hex_distance(coord, B.unit[e].hex) <= 3}

PortEvents(coord) ==
    {ev \in ret.result.events : ev.location_name = "port" /\ ev.coord = coord}

\* C13: at end_turn every Port owned by the new current faction gives 1, 2 or
\* 3 soldiers to a unit of that faction nearest to it among those within
\* distance 3, and nothing when there is no such unit.
C13_PortBonus ==
    EndTurnCalled =>
        \A coord \in port_tiles :
            ret.result.before.tile_faction[coord] = ret.result.new_faction =>
                IF UnitsNear(coord) = {} THEN PortEvents(coord) = {}
                ELSE \E ev \in PortEvents(coord) :
                        /\ PortEvents(coord) = {ev}
                        /\ ev.soldiers \in 1..3
                        /\ ev.entity \in UnitsNear(coord)
                        /\ \A o \in UnitsNear(coord) :
                              hex_distance(coord, ret.result.before.unit[ev.entity].hex)
                                  <= hex_distance(coord, ret.result.before.unit[o].hex)

\* the City and Capital tiles of the new current faction on which no unit
\* stood when end_turn was called
VacantGranted ==
    LET B == ret.result.before
    IN  {c \in Coords :
            /\ Board[c] \in {"City", "Capital"}
            /\ B.tile_faction[c] = ret.result.new_faction
            /\ \A e \in DOMAIN B.unit : B.unit[e].hex # c}

\* the call left the units that were there, and for every vacant tile a
\* pending spawn of 10 soldiers and still no unit
SpawnsReturned ==
    EndTurnCalled =>
        /\ DOMAIN unit = DOMAIN ret.result.before.unit
        /\ pending_spawns = ret.result.pending_spawns
        /\ \A c \in VacantGranted :
              /\ \E i \in DOMAIN pending_spawns :
                    pending_spawns[i] =
                        [coord |-> c, faction |-> ret.result.new_faction, soldiers |-> 10]
              /\ \A e \in DOMAIN unit : unit[e].hex # c

\* the step that takes the pending spawns creates a unit for each of them
SpawnsMaterialized ==
    (pending_spawns # <<>> /\ pending_spawns' = <<>>) =>
        \A i \in DOMAIN pending_spawns :
            \E e \in DOMAIN unit' \ DOMAIN unit :
                /\ unit'[e].hex = pending_spawns[i].coord
                /\ unit'[e].faction = pending_spawns[i].faction
                /\ unit'[e].soldiers = pending_spawns[i].soldiers

\* C14: end_turn creates and destroys no unit; for every City or Capital tile
\* of the new current faction on which no unit stands it returns a pending
\* spawn of 10 soldiers for that faction there, and the unit exists only once
\* the caller has materialized the pending spawn.
C14_PendingSpawns == []SpawnsReturned /\ [][SpawnsMaterialized]_vars

\* end_turn returned a spawn for a vacant City or Capital
C14_Witness ==
    /\ EndTurnCalled
    /\ VacantGranted # {}
    /\ pending_spawns # <<>>

(***************************************************************************)
(* Tile ownership                                                          *)
(***************************************************************************)
TileOwnershipCalled == ret.call = "tile_ownership"

\* the factions other than the owner of tile c with a unit standing on it
Intruders(c) ==
    {unit[e].faction : e \in {x \in DOMAIN unit :
        unit[x].hex = c /\ unit[x].faction # ret.result.tile_faction[c]}}

\* the tiles the call transferred
Transferred == {c \in Coords : tile_faction[c] # ret.result.tile_faction[c]}

CaptureGain(tile_type, old_owner) ==
    IF old_owner # None
    THEN CASE tile_type = "Capital" -> 10
           [] tile_type = "City"    -> 3
           [] tile_type = "Port"    -> 2
           [] OTHER                 -> 1
    ELSE CASE tile_type = "City"    -> 2
           [] tile_type = "Port"    -> 1
           [] OTHER                 -> 0

CaptureLoss(tile_type) ==
    CASE tile_type \in {"City", "Capital"} -> 3
      [] tile_type = "Port"                -> 2
      [] OTHER                             -> 1

\* the morale changes of faction f for the transfers of the call
MoraleDeltas(f) ==
    {[coord |-> c, delta |-> CaptureGain(Board[c], ret.result.tile_faction[c])] :
        c \in {x \in Transferred : tile_faction[x] = f}}
    \cup {[coord |-> c, delta |-> 0 - CaptureLoss(Board[c])] :
        c \in {x \in Transferred : ret.result.tile_faction[x] = f}}

\* the morale m may end at when the deltas are added one by one, saturating
RECURSIVE Saturating(_, _)
Saturating(m, deltas) ==
    IF deltas = {} THEN {m}
    ELSE UNION {Saturating(Max(-50, Min(50, m + d.delta)), deltas \ {d}) : d \in deltas}

\* C15: tile_ownership_system transfers every non-Sea tile on which a unit of
\* a faction other than its owner stands to that unit's faction, adds to the
\* new owner's morale +10/+3/+2/+1 for a Capital/City/Port/other tile taken
\* from an enemy and +2/+1/+0 for a City/Port/other tile taken from neutral,
\* and subtracts 3/2/1 from the previous owner for a City-or-Capital/Port/
\* other tile, morale saturating at -50 and +50.
C15_Transfers ==
    TileOwnershipCalled =>
        /\ \A c \in Coords :
              (Board[c] # "Sea" /\ Intruders(c) # {}) => tile_faction[c] \in Intruders(c)
        /\ \A f \in Faction :
              faction_morale[f] \in Saturating(ret.result.faction_morale[f], MoraleDeltas(f))

\* C16: no Sea tile ever has an owner, whatever units travel over it, stand
\* on it or fight next to it.
C16_SeaUnowned == \A c \in sea_tiles : tile_faction[c] = None

\* tile_ownership_system has run with a unit on a Sea tile
C16_Witness ==
    /\ TileOwnershipCalled
    /\ \E e \in DOMAIN unit : unit[e].hex \in sea_tiles
    /\ C16_SeaUnowned

\* the capture record of tile c passing to faction f
CaptureRecord(c, f) == [coord |-> c, tile_type |-> Board[c], faction |-> f]

\* tile_ownership_system returns a record for every City, Port and Capital
\* it transfers
MoveCaptureRecorded ==
    phase = "own" =>
        \A c \in Coords :
            (/\ Board[c] \in {"City", "Port", "Capital"}
             /\ tile_faction'[c] # tile_faction[c]
             /\ tile_faction'[c] # None)
            => CaptureRecord(c, tile_faction'[c]) \in ret'.result.captures

\* a City, Port or Capital that a winning attacker has just taken from its
\* owner is in the records of the frame's tile_ownership_system call
CombatCaptureRecorded ==
    (/\ phase = "own"
     /\ CombatResolved
     /\ ret.combat.result.attacker_survived
     /\ ~ret.combat.result.defender_survived
     /\ Board[ret.combat.defender_unit.hex] \in {"City", "Port", "Capital"}
     /\ ret.combat.owner # ret.combat.attacker_unit.faction
     /\ tile_faction[ret.combat.defender_unit.hex] = ret.combat.attacker_unit.faction)
    => CaptureRecord(ret.combat.defender_unit.hex, ret.combat.attacker_unit.faction)
           \in ret'.result.captures

\* C17: every time a City, Port or Capital tile passes to a new owning
\* faction because a unit of that faction occupies it, by moving onto it or
\* by winning an attack on its defender, a capture record with the tile's
\* type, its coordinate and the new owner is emitted.
C17_CaptureRecords == [][MoveCaptureRecorded /\ CombatCaptureRecorded]_vars

(***************************************************************************)
(* The AI                                                                  *)
(***************************************************************************)
\* a step that is one call of ai_turn_system
AiCalled == phase = "act" /\ ret'.call = "ai"

\* the unit of turn_order the call is about
ActingUnit ==
    IF current_unit_index < Len(turn_order)
    THEN {turn_order[current_unit_index + 1]} ELSE {}

\* the units the step changed or removed
ChangedUnits == {e \in DOMAIN unit : e \notin DOMAIN unit' \/ unit'[e] # unit[e]}

\* the units the step set moving
SetMoving == {e \in DOMAIN unit' : e \in DOMAIN unit /\ unit'[e].path # <<>>
                                      /\ unit[e].path = <<>>}

AtMostOneUnit ==
    AiCalled =>
        /\ current_unit_index' - current_unit_index \in {0, 1}
        /\ actions_remaining - actions_remaining' \in {0, 1}
        /\ DOMAIN unit' \subseteq DOMAIN unit
        /\ IF ret'.combat # NoCombat
           THEN /\ ret'.combat.attacker \in ActingUnit
                /\ ChangedUnits \subseteq {ret'.combat.attacker, ret'.combat.defender}
                /\ SetMoving \subseteq {ret'.combat.attacker}
                /\ actions_remaining' = actions_remaining - 1
           ELSE /\ ChangedUnits \subseteq ActingUnit
                /\ SetMoving \subseteq ActingUnit
                /\ DOMAIN unit' = DOMAIN unit
                /\ tile_faction' = tile_faction
        /\ SetMoving # {} => actions_remaining' = actions_remaining - 1

\* C18: a call of ai_turn_system handles at most one unit of turn_order: it
\* advances current_unit_index by at most one, lowers actions_remaining by
\* at most one and performs at most one action, a combat or a move, for that
\* unit.
C18_OneUnitPerCall == [][AtMostOneUnit]_vars

\* a call resolved a combat for the unit whose turn it was, with further
\* units of the faction waiting in turn_order
C18_Witness ==
    /\ ret.call = "ai"
    /\ CombatResolved
    /\ current_unit_index < Len(turn_order)
    /\ actions_remaining > 0

\* ai_turn_system, called in the present state, returns true
ReturnsTrue == ai_turn_done(World, player_faction, current_faction)

\* C19: ai_turn_system returns true only on a non-player faction's turn with
\* no Movement in flight and with actions_remaining 0 or current_unit_index
\* at the end of turn_order; such a call changes no state, and can_end_turn
\* holds whenever it returns true.
C19_TurnComplete ==
    ReturnsTrue =>
        /\ current_faction # player_faction
        /\ \A e \in DOMAIN unit : unit[e].path = <<>>
        /\ actions_remaining = 0 \/ current_unit_index >= Len(turn_order)
        /\ ai_turn_system(World, player_faction, current_faction, difficulty,
                          rng_seed, turn_number, faction_eliminated) = {World}
        /\ can_end_turn(unit)

\* the call returns true with actions left, every unit of turn_order handled
C19_Witness ==
    /\ phase = "act"
    /\ ReturnsTrue
    /\ actions_remaining > 0
    /\ turn_order # <<>>
    /\ current_unit_index = Len(turn_order)

\* C20: on Hard difficulty every combat ai_turn_system resolves has the
\* player's faction as defender.
C20_HardSparesAi ==
    (ret.call = "ai" /\ CombatResolved /\ difficulty = "Hard")
    => ret.combat.defender_unit.faction = player_faction

\* on Hard, a unit standing next to units of the player and of another AI
\* faction attacked the player's
C20_Witness ==
    /\ ret.call = "ai"
    /\ CombatResolved
    /\ difficulty = "Hard"
    /\ ret.combat.defender_unit.faction = player_faction
    /\ \E e \in DOMAIN unit :
          /\ unit[e].faction \notin {player_faction, ret.combat.attacker_unit.faction}
          /\ hex_distance(unit[e].hex, ret.combat.attacker_unit.hex) = 1

\* the input and the output of the call of `name` the state records
Called(name) == ret.call = name /\ phase = "call"

\* C26: hex_from_cube undoes hex_to_cube for every offset coordinate, of
\* either column parity and of negative column too, and the cube coordinates
\* of a hex sum to 0; on cube coordinates that sum to 0, converting the hex
\* they give to cube coordinates and back gives that hex again.
C26_CubeInverse ==
    /\ Called("hex_to_cube") =>
          LET cube == ret.result.output
          IN  /\ cube[1] + cube[2] + cube[3] = 0
              /\ hex_from_cube(cube[1], cube[2], cube[3]) = ret.result.input.coord
    /\ Called("hex_from_cube") =>
          LET cube == hex_to_cube(ret.result.output)
          IN  hex_from_cube(cube[1], cube[2], cube[3]) = ret.result.output

\* a hex of a negative odd column was converted, and converts back to itself
C26_Witness ==
    /\ Called("hex_to_cube")
    /\ ret.result.input.coord = <<-1, 1>>
    /\ ret.result.output = <<-1, -1, 2>>
    /\ hex_from_cube(-1, -1, 2) = <<-1, 1>>

\* C27: hex_neighbors returns 6 pairwise distinct coordinates, each at
\* hex_distance 1 from the coordinate given, which is in turn a neighbour of
\* each of them, in odd and even columns, negative ones included.
C27_SixNeighbors ==
    Called("hex_neighbors") =>
        LET c         == ret.result.input.coord
            neighbors == ret.result.output
        IN  /\ Len(neighbors) = 6
            /\ \A i, j \in 1..6 : i # j => neighbors[i] # neighbors[j]
            /\ \A i \in 1..6 :
                  /\ hex_distance(c, neighbors[i]) = 1
                  /\ \E j \in 1..6 : hex_neighbors(neighbors[i])[j] = c

\* the neighbours of a hex of a negative odd column were returned: those
\* beside it lie in its row and in the row below
C27_Witness ==
    /\ Called("hex_neighbors")
    /\ ret.result.input.coord = <<-1, 0>>
    /\ {ret.result.output[i] : i \in 1..6} =
          {<<-1, -1>>, <<0, 0>>, <<0, 1>>, <<-1, 1>>, <<-2, 1>>, <<-2, 0>>}

\* the number of steps of a shortest path from `from` to `to` over the edges
\* hex_neighbors gives; no path of at most 3 * HexRange steps leaves the grid
\* searched
GridSteps(from, to) ==
    BfsDistance({from}, {from},
                (-4 * HexRange .. 4 * HexRange) \X (-4 * HexRange .. 4 * HexRange), to, 0)

\* C28: hex_distance is symmetric, is 0 from a hex to itself, and is the
\* length of the shortest path between the two hexes in the unobstructed
\* grid whose edges hex_neighbors gives.
C28_DistanceIsPathLength ==
    Called("hex_distance") =>
        LET from == ret.result.input.from
            to   == ret.result.input.to
        IN  /\ ret.result.output = hex_distance(to, from)
            /\ from = to => ret.result.output = 0
            /\ ret.result.output = GridSteps(from, to)

\* the distance between two hexes in columns of different parity on either
\* side of column 0, which no straight line of hexes joins
C28_Witness ==
    /\ Called("hex_distance")
    /\ ret.result.input.from = <<-1, -2>>
    /\ ret.result.input.to = <<2, 2>>
    /\ ret.result.output = 5
    /\ GridSteps(<<-1, -2>>, <<2, 2>>) = 5

\* the non-Sea tiles of a map
NonSea(tiles) == {c \in DOMAIN tiles : tiles[c] # "Sea"}

\* the number of steps of a shortest route from `from` to `to` between
\* adjacent non-Sea tiles of the map, -1 when there is none
LandSteps(tiles, from, to) == BfsDistance({from}, {from}, NonSea(tiles), to, 0)

\* what the claim lets calculate_valid_moves return
ReachableTiles(tiles, U, unit_entity, movement_range) ==
    LET unit_hex == U[unit_entity].hex
        others   == {U[e].hex : e \in DOMAIN U \ {unit_entity}}
        near     == {c \in NonSea(tiles) \ {unit_hex} :
                        /\ LandSteps(tiles, unit_hex, c) >= 1
                        /\ LandSteps(tiles, unit_hex, c) <= movement_range}
        ports    == IF tiles[unit_hex] = "Port"
                    THEN {c \in DOMAIN tiles : tiles[c] = "Port"} \ {unit_hex}
                    ELSE {}
    IN  (near \cup ports) \ others

\* the tiles at hex_distance d of a coordinate
Ring(center, d) ==
    {c \in (center[1] - d .. center[1] + d) \X (center[2] - d .. center[2] + d) :
        hex_distance(center, c) = d}

\* C21: calculate_valid_moves returns the non-Sea tiles other than the unit's
\* own whose shortest route over non-Sea tiles has 1 to movement_range steps,
\* and from a Port every other Port, less the tiles other units stand on; with
\* range 2 on open land these are the 6 tiles at distance 1 and the 12 at
\* distance 2, less the occupied ones.
C21_ValidMoves ==
    Called("calculate_valid_moves") =>
        LET tiles    == ret.result.input.tiles
            U        == ret.result.input.unit
            entity   == ret.result.input.unit_entity
            unit_hex == U[entity].hex
            range    == U[entity].movement_range
            others   == {U[e].hex : e \in DOMAIN U \ {entity}}
        IN  /\ ret.result.output = ReachableTiles(tiles, U, entity, range)
            /\ (/\ range = 2
                /\ \A c \in DOMAIN tiles : tiles[c] = "Land"
                /\ Ring(unit_hex, 1) \cup Ring(unit_hex, 2) \subseteq DOMAIN tiles)
               => /\ Cardinality(Ring(unit_hex, 1)) = 6
                  /\ Cardinality(Ring(unit_hex, 2)) = 12
                  /\ ret.result.output = (Ring(unit_hex, 1) \cup Ring(unit_hex, 2)) \ others

\* on open land a unit of range 2 with another unit two tiles off is given
\* the other 17 tiles around it
C21_Witness ==
    /\ Called("calculate_valid_moves")
    /\ \A c \in DOMAIN ret.result.input.tiles : ret.result.input.tiles[c] = "Land"
    /\ ret.result.input.unit[1].hex = <<2, 2>>
    /\ ret.result.input.unit[2].hex = <<4, 2>>
    /\ Cardinality(ret.result.output) = 17

\* from a Port a unit is given the Port on the far shore, which no route over
\* land reaches, and not the Port another unit stands on
C21_WitnessPort ==
    /\ Called("calculate_valid_moves")
    /\ ret.result.input.unit[1].hex = <<1, 2>>
    /\ ret.result.input.unit[2].hex = <<4, 4>>
    /\ ret.result.input.tiles[<<3, 2>>] = "Port"
    /\ ret.result.input.tiles[<<4, 4>>] = "Port"
    /\ LandSteps(ret.result.input.tiles, <<1, 2>>, <<3, 2>>) < 0
    /\ <<3, 2>> \in ret.result.output
    /\ <<4, 4>> \notin ret.result.output

\* the path is a route from `from` to `to` between adjacent non-Sea tiles
IsLandRoute(tiles, path, from, to) ==
    /\ path # <<>>
    /\ path[1] = from
    /\ path[Len(path)] = to
    /\ \A i \in 1 .. Len(path) : path[i] \in NonSea(tiles)
    /\ \A i \in 1 .. Len(path) - 1 : path[i + 1] \in NeighborSet(path[i])

BothPorts(tiles, from, to) ==
    /\ from \in DOMAIN tiles /\ tiles[from] = "Port"
    /\ to \in DOMAIN tiles /\ tiles[to] = "Port"

\* what find_path returns for a tile to itself and between two tiles that are
\* not both Ports: [a] for a to a, None from or to a Sea tile or no tile and
\* for a tile no route over land reaches, else a shortest route over land
FindPathOverLand ==
    (Called("find_path")
        /\ ~ BothPorts(ret.result.input.tiles, ret.result.input.from, ret.result.input.to))
    => LET tiles == ret.result.input.tiles
           from  == ret.result.input.from
           to    == ret.result.input.to
           path  == ret.result.output
       IN  IF from = to THEN path = <<from>>
           ELSE IF from \notin NonSea(tiles) \/ to \notin NonSea(tiles) THEN path = <<>>
           ELSE IF LandSteps(tiles, from, to) < 0 THEN path = <<>>
           ELSE /\ IsLandRoute(tiles, path, from, to)
                /\ Len(path) = LandSteps(tiles, from, to) + 1

\* C22 as stated: find_path(a, a) is [a]; for a # b the result is None when a
\* or b is a Sea tile or no tile, or when no route over non-Sea tiles leads
\* from a to b; otherwise, a and b not both Ports, it is a shortest route
\* from a to b between adjacent non-Sea tiles.
C22_NoneWhenUnreachable ==
    /\ FindPathOverLand
    /\ (Called("find_path")
          /\ BothPorts(ret.result.input.tiles, ret.result.input.from, ret.result.input.to))
       => LET tiles == ret.result.input.tiles
              from  == ret.result.input.from
              to    == ret.result.input.to
              path  == ret.result.output
          IN  /\ from = to => path = <<from>>
              /\ (from # to /\ LandSteps(tiles, from, to) < 0) => path = <<>>

\* C22 amended: between two different Ports find_path never returns None,
\* whether or not a route over land joins them: it returns a path from the
\* one to the other; in every other case the result is as stated.
C22_FindPath ==
    /\ FindPathOverLand
    /\ (Called("find_path")
          /\ BothPorts(ret.result.input.tiles, ret.result.input.from, ret.result.input.to))
       => LET from == ret.result.input.from
              to   == ret.result.input.to
              path == ret.result.output
          IN  /\ from = to => path = <<from>>
              /\ from # to => /\ Len(path) >= 2
                              /\ path[1] = from
                              /\ path[Len(path)] = to

\* a path between the Ports on the two shores of the strait, which no route
\* over land joins: it crosses the Sea tile between them
C22_Witness ==
    /\ Called("find_path")
    /\ ret.result.input.from = <<1, 2>>
    /\ ret.result.input.to = <<3, 2>>
    /\ BothPorts(ret.result.input.tiles, <<1, 2>>, <<3, 2>>)
    /\ LandSteps(ret.result.input.tiles, <<1, 2>>, <<3, 2>>) < 0
    /\ ret.result.output = << <<1, 2>>, <<2, 2>>, <<3, 2>> >>

\* C23: resolve_combat given a handle of no living unit, as attacker or as
\* defender, returns None and leaves every unit, tile owner and morale value
\* as it was (it holds no action counter); move_unit_to towards a destination
\* to which find_path returns None leaves the unit table as it was, the unit
\* where it stood and without a Movement.
C23_FailedLookups ==
    /\ (Called("resolve_combat")
          /\ (\/ ret.result.input.attacker_entity \notin DOMAIN ret.result.input.unit
              \/ ret.result.input.defender_entity \notin DOMAIN ret.result.input.unit))
       => /\ ret.result.output.result = NoResult
          /\ ret.result.output.unit = ret.result.input.unit
          /\ ret.result.output.tile_faction = ret.result.input.tile_faction
          /\ ret.result.output.faction_morale = ret.result.input.faction_morale
          /\ ret.actions = actions_remaining
    /\ (Called("move_unit_to")
          /\ ret.result.input.unit_entity \in DOMAIN ret.result.input.unit
          /\ find_path(ret.result.input.tiles,
                       ret.result.input.unit[ret.result.input.unit_entity].hex,
                       ret.result.input.destination) = {})
       => /\ ret.result.output = ret.result.input.unit
          /\ ~ has_movement(ret.result.output[ret.result.input.unit_entity])

\* a living attacker was sent against a handle of no unit
C23_Witness ==
    /\ Called("resolve_combat")
    /\ ret.result.input.attacker_entity = 1
    /\ ret.result.input.defender_entity = 3
    /\ 3 \notin DOMAIN ret.result.input.unit
    /\ ret.result.output.result = NoResult
    /\ ret.result.output.unit = ret.result.input.unit

\* a unit was sent to a tile across the strait, which no route reaches
C23_WitnessNoPath ==
    /\ Called("move_unit_to")
    /\ ret.result.input.unit_entity = 1
    /\ ret.result.input.destination = <<4, 0>>
    /\ ret.result.input.tiles[<<4, 0>>] = "Land"
    /\ find_path(ret.result.input.tiles, <<0, 0>>, <<4, 0>>) = {}
    /\ ret.result.output = ret.result.input.unit

\* C29: with progress advancing in every step, a unit that has a Movement
\* eventually has none, and in the step that removes the Movement the unit's
\* hex becomes the last waypoint of its path.
C29_MovementEnds ==
    /\ \A e \in 1 .. 2 : has_movement(unit[e]) ~> ~ has_movement(unit[e])
    /\ [][\A e \in DOMAIN unit :
             (has_movement(unit[e]) /\ ~ has_movement(unit'[e]))
             => unit'[e].hex = unit[e].path[Len(unit[e].path)]]_vars

\* a step removed the Movement of a unit four tiles from its destination,
\* which now stands there
C29_Witness ==
    /\ ret.call = "movement_system"
    /\ has_movement(ret.result.before[1])
    /\ Len(ret.result.before[1].path) = 5
    /\ ~ has_movement(unit[1])
    /\ unit[1].hex = ret.result.before[1].path[5]
    /\ unit[1].hex # ret.result.before[1].hex

\* C30: after a movement_system step a unit that still has a Movement has
\* current_segment < len(path) - 1, 0 <= segment_progress < 1 and stands on
\* path[current_segment], also when the step completed several segments.
C30_MovementInvariant ==
    ret.call = "movement_system" =>
        \A e \in DOMAIN unit :
            has_movement(unit[e]) =>
                /\ unit[e].current_segment >= 0
                /\ unit[e].current_segment < Len(unit[e].path) - 1
                /\ unit[e].segment_progress >= 0
                /\ unit[e].segment_progress < ProgressUnit
                /\ unit[e].hex = unit[e].path[unit[e].current_segment + 1]

\* one step took a unit over two segments and half of a third
C30_Witness ==
    /\ ret.call = "movement_system"
    /\ has_movement(ret.result.before[1])
    /\ has_movement(unit[1])
    /\ unit[1].current_segment = ret.result.before[1].current_segment + 2
    /\ unit[1].segment_progress > 0
    /\ unit[1].hex = unit[1].path[unit[1].current_segment + 1]

\* C24: generate_map is deterministic: every call with the seed of this call
\* returns the terrain map and the feature map this call returned, whatever
\* the order in which the process walks its hash tables.
C24_SameSeedSameMap ==
    Called("generate_map") =>
        \A map \in Apply(ret.result.input) : map = ret.result.output

\* the tiles joined to `start` by a chain of adjacent non-Sea tiles
JoinedByLand(tiles, start) ==
    flood_fill_land(start,
                    Table([c \in DOMAIN tiles |->
                              IF tiles[c] = "Sea" THEN "Sea" ELSE "Land"]),
                    MAP_WIDTH, MAP_HEIGHT)

\* C25: in every map generate_map returns, each capital coordinate reaches
\* every other one through a chain of adjacent non-Sea tiles.
C25_CapitalsJoined ==
    Called("generate_map") =>
        \A i \in DOMAIN MapGenParams.capital_coords :
            MapGenParams.capital_coords[i] \in
                JoinedByLand(ret.result.output.tiles, MapGenParams.capital_coords[1])


(***************************************************************************)
(* The AI while it has to wait (ai.rs)                                     *)
(***************************************************************************)
\* some unit has a Movement in flight
MovementInFlight == \E e \in DOMAIN unit : unit[e].path # <<>>

AiOnTurn == current_faction # player_faction /\ phase # "over"

\* C32: the turn of an AI faction comes to an end: with movement_system and
\* then ai_turn_system run frame after frame, a call is reached in which
\* ai_turn_system returns true, unless the match is decided before.
C32_AiTurnEnds == AiOnTurn ~> ((phase = "act" /\ ReturnsTrue) \/ phase = "over")

\* ai_turn_system returns true after it has handled every unit of
\* turn_order with actions to spare, one of them having been on its way
C32_Witness ==
    /\ phase = "act"
    /\ ReturnsTrue
    /\ ret.call = "movement"
    /\ actions_remaining \in 1 .. ACTIONS_PER_TURN - 1
    /\ Len(turn_order) >= 2
    /\ current_unit_index = Len(turn_order)

(***************************************************************************)
(* Elimination (victory.rs)                                                *)
(***************************************************************************)
\* the factions the step marks eliminated
NewlyEliminated == {f \in Faction : ~faction_eliminated[f] /\ faction_eliminated'[f]}

\* what one call of victory_system does to the faction f
EliminatesCapitalLosers(f) ==
    LET owner == tile_faction[get_capital_coord(f)]
        events == ret'.result.events
        told  == {i \in DOMAIN events : events[i] = f}
    IN  /\ ~faction_eliminated[f] =>
              (faction_eliminated'[f] <=> (owner # None /\ owner # f))
        /\ IF f \in NewlyEliminated
           THEN /\ Cardinality(told) = 1
                /\ \A e \in DOMAIN unit' : unit'[e].faction # f
                /\ \A c \in Coords : tile_faction[c] = f => tile_faction'[c] = None
                /\ \A c \in Coords : tile_faction'[c] # f
           ELSE told = {}

\* C33: victory_system marks a faction that is not yet eliminated as
\* eliminated exactly when the Capital tile at its capital coordinate is
\* owned by another faction, a neutral capital eliminating nobody; the same
\* call emits one elimination event for the faction, despawns all of its
\* units and makes every tile it owned neutral.
C33_Elimination ==
    [][phase = "victory" => \A f \in Faction : EliminatesCapitalLosers(f)]_vars

\* a call eliminated a faction that had units in the field and tiles besides
\* its capital, and the match goes on
C33_Witness ==
    /\ ret.call = "victory"
    /\ Len(ret.result.events) = 1
    /\ ret.result.result = "Ongoing"
    /\ Cardinality({f \in Faction : faction_eliminated[f]}) = 1

\* the faction f has left the match: no unit and no tile is its own
OutOfTheMatch(U, T, f) ==
    /\ \A e \in DOMAIN U : U[e].faction # f
    /\ \A c \in Coords : T[c] # f

\* C34: elimination is permanent and complete: a faction marked eliminated
\* stays marked, and in every later state it has no living unit and owns no
\* tile; a spawn that reinforcement scheduled for it before its elimination
\* is never made into a unit afterwards.
C34_EliminationPermanent ==
    [][\A f \in Faction : faction_eliminated[f] =>
            /\ faction_eliminated'[f]
            /\ OutOfTheMatch(unit', tile_faction', f)]_vars

\* once marked eliminated a faction is never un-marked
C34_NeverUnmarked ==
    [][\A f \in Faction : faction_eliminated[f] => faction_eliminated'[f]]_vars

(***************************************************************************)
(* One unit per hex                                                        *)
(***************************************************************************)
\* the living units that stand on the hex c
UnitsOn(c) == {e \in DOMAIN unit : unit[e].hex = c}

\* C35: whenever no Movement is in flight, no two living units have the same
\* hex coordinate, whether the moves were planned by the AI or by the player
\* and whether the units were scheduled by reinforcement.
C35_OneUnitPerHex ==
    ~MovementInFlight => \A c \in Coords : Cardinality(UnitsOn(c)) <= 1

(***************************************************************************)
(* One action per unit and turn                                            *)
(***************************************************************************)
\* the step is a call of ai_turn_system or of input_system
UnitsDriven == phase = "act" /\ ret'.call \in {"ai", "input"}

\* the unit e is given a path or attacks in the step
Acts(e) ==
    \/ e \in DOMAIN unit' /\ unit'[e].path # unit[e].path
    \/ ret'.combat # NoCombat /\ ret'.combat.attacker = e

\* C36: a unit whose has_moved flag is set performs no further move and no
\* attack until the next end_turn resets the flag, whether ai_turn_system or
\* the clicks of the player in input_system drive it.
C36_ActsOnce ==
    [][UnitsDriven => \A e \in DOMAIN unit : unit[e].has_moved => ~Acts(e)]_vars

\* the same for the calls of ai_turn_system alone
C36_AiActsOnce ==
    [][AiCalled => \A e \in DOMAIN unit : unit[e].has_moved => ~Acts(e)]_vars

(***************************************************************************)
(* The action counter                                                      *)
(***************************************************************************)
\* C37: actions_remaining stays between 0 and 5: ai_turn_system and
\* input_system decrement it only when it is positive and at most once per
\* call, so the unsigned 8-bit counter never wraps below 0.
C37_ActionsInRange ==
    [][/\ actions_remaining' \in 0 .. ACTIONS_PER_TURN
       /\ UnitsDriven =>
             /\ actions_remaining - actions_remaining' \in {0, 1}
             /\ actions_remaining = 0 => actions_remaining' = 0]_vars

\* a click of the player spent the last action of the turn
C37_Witness ==
    /\ ret.call = "input"
    /\ ret.actions = 1
    /\ actions_remaining = 0
    /\ phase = "own"

\* the AI spent the last action of its turn
C37_WitnessAi ==
    /\ ret.call = "ai"
    /\ ret.actions = 1
    /\ actions_remaining = 0
    /\ phase = "own"

(***************************************************************************)
(* The combats the AI starts (ai.rs, combat.rs)                            *)
(***************************************************************************)
\* ai_turn_system started the combat ret reports, on Easy or Normal
AiCombat == ret.call = "ai" /\ CombatResolved /\ difficulty \in {"Easy", "Normal"}

(***************************************************************************)
(* The end of Bluegaria's turn in a match of attrition: Greenland, an AI,  *)
(* owns its capital and both Ports and has one unit left, of one soldier,  *)
(* on the Port (1,2); next to it on Land stands the last soldier of a unit *)
(* of Redosia, the player, spawned while Redosia's morale was -3.          *)
(***************************************************************************)
AttritionInit ==
    /\ unit = (1 :> Unit("Redosia", 1, -3, <<2, 2>>)) @@ (2 :> Unit("Greenland", 1, 0, <<1, 2>>))
              @@ (3 :> Unit("Bluegaria", 10, 0, <<3, 2>>))
    /\ tile_faction = [c \in Coords |->
                          IF c \in {<<0, 2>>, <<1, 2>>, <<1, 0>>} THEN "Greenland"
                          ELSE IF c = <<3, 2>> THEN "Bluegaria"
                          ELSE IF c \in {<<0, 0>>, <<2, 2>>} THEN "Redosia"
                          ELSE None]
    /\ rng_seed \in {ToU32(12345), <<32768, 0>>, <<32768, 24>>}
    /\ next_entity = 4
    /\ selected = NoEntity
    /\ valid_move_tiles = {}
    /\ previous_selected_unit = NoEntity
    /\ current_faction = "Bluegaria"
    /\ actions_remaining \in {0, 1}
    /\ difficulty \in Difficulty
    /\ turn_number = MaxTurn
    /\ faction_eliminated = [f \in Faction |-> f = "Violetnam"]
    /\ faction_morale = [f \in Faction |-> IF f = "Redosia" THEN -3 ELSE 0]
    /\ speech_used = FALSE
    /\ turn_order \in build_turn_order(unit, current_faction)
    /\ current_unit_index = 0
    /\ player_faction = "Redosia"
    /\ pending_spawns = <<>>
    /\ phase = "act"
    /\ ret = Ret("init", NoCombat, NoReturn)

AttritionSpec == AttritionInit /\ [][ReinforcementNext]_vars

\* C38: on Easy and Normal every combat ai_turn_system starts is won by the
\* attacker and the defender is destroyed: a win chance above the attack
\* threshold means that the attacker's strength in resolve_combat, which uses
\* the same strengths, is strictly greater than the defender's.
C38_AiWinsItsCombats ==
    AiCombat =>
        /\ F32Gt(AttackerStrength, DefenderStrength)
        /\ ~ret.combat.result.defender_survived
        /\ ret.combat.defender \notin DOMAIN unit

\* the AI attacked a unit on a Capital, where the threshold is lowest
C38_Witness ==
    /\ AiCombat
    /\ Board[ret.combat.defender_unit.hex] = "Capital"
    /\ ret.combat.defender_unit.soldiers > 1

(***************************************************************************)
(* The spawns of one end_turn (reinforcement.rs)                           *)
(***************************************************************************)
\* the spawns lie on pairwise distinct hexes, on none of which a unit of U
\* stands
SpawnsApart(spawns, U) ==
    /\ \A i, j \in DOMAIN spawns : i # j => spawns[i].coord # spawns[j].coord
    /\ \A i \in DOMAIN spawns : \A e \in DOMAIN U : U[e].hex # spawns[i].coord

\* C39: the pending spawns one end_turn returns have pairwise distinct
\* coordinates and none lies on a hex where a unit stands, also when the
\* faction owns 10 tiles or more and both the Capital grant and the territory
\* bonus apply to its unoccupied capital.
C39_SpawnsApart ==
    /\ Called("reinforcement_system") =>
          SpawnsApart(ret.result.output.pending_spawns, ret.result.output.unit)
    /\ (EndTurnCalled /\ phase # "call") => SpawnsApart(ret.result.pending_spawns, unit)

(***************************************************************************)
(* Counting the rounds (turn.rs).  end_turn is called time after time in a *)
(* match that two factions or more are left in; each of them holds its     *)
(* capital with the unit it started with.  ret keeps the turn number       *)
(* before and after each of the last four calls.                           *)
(***************************************************************************)
TurnInit ==
    /\ faction_eliminated \in {el \in [Faction -> BOOLEAN] :
                                  Cardinality({f \in Faction : ~el[f]}) >= 2}
    /\ current_faction \in {f \in Faction : ~faction_eliminated[f]}
    /\ unit = [e \in {x \in DOMAIN initial_units :
                         ~faction_eliminated[initial_units[x].faction]} |-> initial_units[e]]
    /\ tile_faction = [c \in Coords |->
                          IF \E e \in DOMAIN unit : unit[e].hex = c
                          THEN (CHOOSE f \in Faction : get_capital_coord(f) = c) ELSE None]
    /\ next_entity = 5
    /\ selected = NoEntity
    /\ valid_move_tiles = {}
    /\ previous_selected_unit = NoEntity
    /\ actions_remaining = ACTIONS_PER_TURN
    /\ turn_number \in 1 .. MaxTurn
    /\ faction_morale = [f \in Faction |-> 0]
    /\ speech_used = FALSE
    /\ turn_order \in build_turn_order(unit, current_faction)
    /\ current_unit_index = 0
    /\ rng_seed = ToU32(12345)
    /\ difficulty = "Normal"
    /\ player_faction = "Greenland"
    /\ pending_spawns = <<>>
    /\ phase = "call"
    /\ ret = Ret("init", NoCombat, [turns |-> <<>>])

\* one more call of end_turn
EndTurnCall ==
    /\ phase = "call"
    /\ \E t \in end_turn(World, current_faction, turn_number, faction_eliminated, rng_seed) :
         /\ t.turn_number <= MaxTurn
         /\ Store(t.world)
         /\ current_faction' = t.current_faction
         /\ turn_number' = t.turn_number
         /\ rng_seed' = t.rng_seed
         /\ pending_spawns' = t.pending_spawns
         /\ ret' = Ret("end_turn", NoCombat,
                       [turns |-> LET turns == ret.result.turns
                                      last  == IF Len(turns) <= 3 THEN turns
                                               ELSE SubSeq(turns, Len(turns) - 2, Len(turns))
                                  IN  Append(last, [before |-> turn_number,
                                                    after  |-> t.turn_number])])
    /\ UNCHANGED <<next_entity, faction_eliminated, difficulty, player_faction, phase>>

TurnSpec == TurnInit /\ [][EndTurnCall]_vars

\* C40: turn_number keeps counting the rounds: in any four consecutive
\* end_turn calls it increases at least once, whichever factions have been
\* eliminated, as long as a faction survives.
C40_RoundsCounted ==
    (Called("end_turn") /\ Len(ret.result.turns) = 4)
    => ret.result.turns[4].after > ret.result.turns[1].before

\* the same while Redosia is in the match
C40_RoundsCountedWithRedosia ==
    (Called("end_turn") /\ Len(ret.result.turns) = 4 /\ ~faction_eliminated["Redosia"])
    => ret.result.turns[4].after > ret.result.turns[1].before

=========================================================================
